---- MODULE Spec2Model ----
(***************************************************************************)
(* A model of the Korp export package (korpexport): the result accessor    *)
(* (queryresult.py), the option resolver and rendering pipeline            *)
(* (formatter.py), the format plugins (format/*.py) and the exporter       *)
(* (exporter.py).                                                          *)
(*                                                                         *)
(* Python values are modelled as follows.  A string is a TLA+ string, a    *)
(* list a sequence.  A value that may be None is a record                  *)
(* [isNone, v]; a call that may raise returns a record [exc, val] with     *)
(* exc = "" when it returned normally.                                     *)
(***************************************************************************)
EXTENDS Integers, Sequences, FiniteSets, TLC

VARIABLES
    py3,          \* the interpreter runs Python 3 (TRUE) or Python 2 (FALSE)
    sentence,     \* result accessor: the sentence under inspection
    matchOpts,    \* formatter options match_open, match_close, match_marker
    sliceOut,     \* results of get_sentence_tokens, by kind
    rendOut,      \* result of the last _format_sentence token rendering
    query_result, \* content rendering: the query result record (its kwic)
    given_result, \* the query result as it was handed to the formatter
    plugin,       \* content rendering: the format of the formatter
    contentOut,   \* outcome of make_download_content
    format_importable,     \* the package "format" can be imported
    sentence_field_labels, \* the dict object
                           \* KorpExportFormatter._option_defaults
                           \*     ["sentence_field_labels"]
    formatter,    \* the formatter instance in use
    formatterOut, \* outcome of the last _get_formatter
    made,         \* number of formatters constructed so far
    exporter,     \* the KorpExporter instance in use
    exportOut,    \* outcome of the last KorpExporter.make_download_file
    constructed,  \* number of exporters constructed so far
    args,         \* the arguments of the function call under inspection
    returned      \* the outcome of that call

tokVars == <<sentence, matchOpts, sliceOut, rendOut>>

contentVars == <<query_result, given_result, plugin, contentOut>>

fmtVars ==
    <<format_importable, sentence_field_labels, formatter, formatterOut, made>>

expVars == <<exporter, exportOut, constructed>>

callVars == <<args, returned>>

vars == <<py3, tokVars, contentVars, fmtVars, expVars, callVars>>

NotCalled == [exc |-> "not called", val |-> <<>>]

\* the parts of the state a specification does not use stay at rest
TokensIdle ==
    /\ sentence = [tokens |-> <<>>, hasMatch |-> FALSE,
                   match |-> [start |-> 0, end |-> 0]]
    /\ matchOpts = [match_open |-> "", match_close |-> "", match_marker |-> ""]
    /\ sliceOut = <<>>
    /\ rendOut = NotCalled

ContentIdle ==
    /\ query_result = <<>>
    /\ given_result = <<>>
    /\ plugin = ""
    /\ contentOut = "not called"

NoFormatter ==
    [exists |-> FALSE, form |-> <<>>, exporter_opts |-> <<>>,
     options |-> <<>>, mro |-> <<>>, subformat |-> <<>>, opts |-> <<>>,
     sentence_token_attrs |-> <<>>, query_result |-> <<>>,
     content_options |-> <<>>]

NoOutcome == [exc |-> "not called", msg |-> ""]

FormatterIdle ==
    /\ format_importable = FALSE
    /\ sentence_field_labels = <<>>
    /\ formatter = NoFormatter
    /\ formatterOut = NoOutcome
    /\ made = 0

\* self._query_result is None until a query is processed: has_result
NoExporter ==
    [exists |-> FALSE, form |-> <<>>, opts |-> <<>>, has_result |-> FALSE,
     query_result |-> <<>>, calls |-> 0]

NoExport ==
    [exc |-> "not called", msg |-> "", result |-> "none",
     processed |-> FALSE, got_result |-> FALSE]

ExporterIdle ==
    /\ exporter = NoExporter
    /\ exportOut = NoExport
    /\ constructed = 0

CallIdle ==
    /\ args = <<>>
    /\ returned = NotCalled

-----------------------------------------------------------------------------
(* Bounds *)

MaxTokens == 3

-----------------------------------------------------------------------------
(* Python values *)

NoneVal == [isNone |-> TRUE, v |-> 0]

IntVal(n) == [isNone |-> FALSE, v |-> n]

Ok(val) == [exc |-> "", val |-> val]

Raise(exc) == [exc |-> exc, val |-> <<>>]

Min(a, b) == IF a <= b THEN a ELSE b

\* x >= 0 for x an int or None: "True", "False" or "TypeError".  Python 3
\* refuses to order None and an int; Python 2 orders None below every int.
GE0(x) ==
    IF x.isNone
    THEN IF py3 THEN "TypeError" ELSE "False"
    ELSE IF x.v >= 0 THEN "True" ELSE "False"

\* (x >= 0 or x is None): the comparison is evaluated first.
GE0OrNone(x) ==
    IF GE0(x) = "False"
    THEN IF x.isNone THEN "True" ELSE "False"
    ELSE GE0(x)

\* seq[start:end] for start, end None or >= 0
PySlice(seq, start, end) ==
    LET lo == IF start.isNone THEN 0 ELSE Min(start.v, Len(seq))
        hi == IF end.isNone THEN Len(seq) ELSE Min(end.v, Len(seq))
    IN  IF hi <= lo THEN <<>> ELSE SubSeq(seq, lo + 1, hi)

-----------------------------------------------------------------------------
(* queryresult.py: the tokens of a sentence *)

TokenKinds == {"all", "match", "left_context", "right_context"}

get_sentence_tokens_base(sent, start, end) ==
    IF GE0OrNone(start) = "TypeError" THEN Raise("TypeError")
    ELSE IF GE0OrNone(start) = "False" THEN Ok(<<>>)
    ELSE IF GE0OrNone(end) = "TypeError" THEN Raise("TypeError")
    ELSE IF GE0OrNone(end) = "False" THEN Ok(<<>>)
    ELSE Ok(PySlice(sent.tokens, start, end))

get_sentence_tokens_all(sent) ==
    get_sentence_tokens_base(sent, NoneVal, NoneVal)

\* sentence.get("match", {}).get(infoname, -1), infoname start or end
get_sentence_match_info(sent, infoname) ==
    IF sent.hasMatch THEN sent.match[infoname] ELSE -1

get_sentence_tokens_match(sent) ==
    IF sent.hasMatch
    THEN get_sentence_tokens_base(sent, IntVal(sent.match["start"]),
                                  IntVal(sent.match["end"]))
    ELSE Ok(<<>>)

get_sentence_tokens_left_context(sent) ==
    LET match_start == get_sentence_match_info(sent, "start")
    IN  get_sentence_tokens_base(
            sent, NoneVal,
            IF match_start < 0 THEN NoneVal ELSE IntVal(match_start))

get_sentence_tokens_right_context(sent) ==
    get_sentence_tokens_base(
        sent, IntVal(get_sentence_match_info(sent, "end")), NoneVal)

get_sentence_tokens(sent, type_) ==
    CASE type_ = "all" -> get_sentence_tokens_all(sent)
      [] type_ = "match" -> get_sentence_tokens_match(sent)
      [] type_ = "left_context" -> get_sentence_tokens_left_context(sent)
      [] type_ = "right_context" -> get_sentence_tokens_right_context(sent)

-----------------------------------------------------------------------------
(* formatter.py: the match markers of the tokens of a sentence *)

\* keyword arguments match_start and match_end of _format_token; absent
\* unless _format_sentence set them
NoMatchArgs == [given |-> FALSE, match_start |-> 0, match_end |-> 0]

MatchArgs(s, e) == [given |-> TRUE, match_start |-> s, match_end |-> e]

\* KorpExportFormatter._format_token: the strings given to the token format
\* as match_open, match_close and match_marker
format_token(token, token_num, kwargs, opts) ==
    LET marked == kwargs.given /\ kwargs.match_end # 0
    IN  [token |-> token,
         match_open |->
            IF marked /\ token_num = kwargs.match_start
            THEN opts.match_open ELSE "",
         match_close |->
            IF marked /\ token_num = kwargs.match_end - 1
            THEN opts.match_close ELSE "",
         match_marker |->
            IF marked /\ kwargs.match_start <= token_num
                      /\ token_num < kwargs.match_end
            THEN opts.match_marker ELSE ""]

\* _format_tokens / _format_list("token", ...): token_num counts from 0
format_tokens(tokens, kwargs, opts) ==
    [i \in 1..Len(tokens) |-> format_token(tokens[i], i - 1, kwargs, opts)]

\* the keyword arguments _format_sentence builds for one tokens_type
sentence_token_kwargs(sent, tokens_type, tokens, opts) ==
    IF opts.match_open # "" \/ opts.match_close # "" \/ opts.match_marker # ""
    THEN CASE tokens_type = "tokens" ->
                MatchArgs(get_sentence_match_info(sent, "start"),
                          get_sentence_match_info(sent, "end"))
           [] tokens_type = "match" -> MatchArgs(0, Len(tokens))
           [] OTHER -> NoMatchArgs
    ELSE NoMatchArgs

TokensTypes == <<"tokens", "match", "left_context", "right_context">>

KindOf(tokens_type) == IF tokens_type = "tokens" THEN "all" ELSE tokens_type

\* KorpExportFormatter._format_sentence, the loop over tokens_type_info:
\* the four token lists are fetched eagerly, so the first failing fetch
\* ends the call; each list is then rendered token by token.
format_sentence_tokens(sent, opts) ==
    LET fetched == [i \in 1..4 |-> get_sentence_tokens(sent, KindOf(TokensTypes[i]))]
        failed == {i \in 1..4 : fetched[i].exc # ""}
    IN  IF failed # {}
        THEN Raise(fetched[CHOOSE i \in failed : \A j \in failed : i <= j].exc)
        ELSE Ok([i \in 1..4 |->
                    format_tokens(
                        fetched[i].val,
                        sentence_token_kwargs(sent, TokensTypes[i],
                                              fetched[i].val, opts),
                        opts)])

-----------------------------------------------------------------------------
(* Result accessor and token rendering: state machine *)

\* token i of a sentence is the number i - 1, its index in the sentence
TokensOf(n) == [i \in 1..n |-> i - 1]

Sentences ==
    { [tokens |-> TokensOf(n), hasMatch |-> FALSE,
       match |-> [start |-> 0, end |-> 0]] : n \in 0..MaxTokens }
    \cup
    { [tokens |-> TokensOf(n), hasMatch |-> TRUE,
       match |-> [start |-> s, end |-> e]] :
         n \in 0..MaxTokens, s \in 0..MaxTokens, e \in 0..MaxTokens }

\* the invariant of the data model: 0 <= start <= end <= len(tokens)
ValidSentence(sent) ==
    sent.hasMatch =>
        /\ sent.match["start"] <= sent.match["end"]
        /\ sent.match["end"] <= Len(sent.tokens)

MatchOptions ==
    [match_open : {"", "<<< "}, match_close : {"", " >>>"},
     match_marker : {"", "*"}]

InitTokens ==
    /\ ContentIdle
    /\ FormatterIdle
    /\ ExporterIdle
    /\ CallIdle
    /\ py3 \in BOOLEAN
    /\ sentence \in {s \in Sentences : ValidSentence(s)}
    /\ matchOpts \in MatchOptions
    /\ sliceOut = [k \in TokenKinds |-> NotCalled]
    /\ rendOut = NotCalled

\* a caller fetches the tokens of one kind
GetSentenceTokens ==
    \E kind \in TokenKinds :
        /\ sliceOut[kind] = NotCalled
        /\ sliceOut' = [sliceOut EXCEPT ![kind] = get_sentence_tokens(sentence, kind)]
        /\ UNCHANGED <<py3, sentence, matchOpts, rendOut, contentVars, fmtVars,
                     expVars, callVars>>

\* the formatter renders the token lists of the sentence
FormatSentence ==
    /\ rendOut = NotCalled
    /\ rendOut' = format_sentence_tokens(sentence, matchOpts)
    /\ UNCHANGED <<py3, sentence, matchOpts, sliceOut, contentVars, fmtVars,
                   expVars, callVars>>

NextTokens == GetSentenceTokens \/ FormatSentence

SpecTokens == InitTokens /\ [][NextTokens]_vars

-----------------------------------------------------------------------------
(* Claims about the result accessor and the match markers *)

Called(kind) == sliceOut[kind] # NotCalled

MatchStart == sentence.match["start"]

MatchEnd == sentence.match["end"]

InSpan(i) == MatchStart <= i /\ i < MatchEnd

\* C3: when the tokens of a sentence with a match {start, end} are rendered,
\* match_open is emitted only for the token at index start, match_close only
\* for the token at index end - 1, match_marker for exactly the tokens with
\* start <= index < end, and no token outside [start, end) gets any of the
\* three strings.
C3_MarkersOnlyInSpan ==
    (sentence.hasMatch /\ rendOut # NotCalled /\ rendOut.exc = "") =>
        \A i \in 1..4 : \A j \in 1..Len(rendOut.val[i]) :
            LET r == rendOut.val[i][j]
            IN  /\ r.match_open # "" => r.token = MatchStart
                /\ r.match_close # "" => r.token = MatchEnd - 1
                /\ r.match_marker # "" => InSpan(r.token)
                /\ (i \in {1, 2} /\ InSpan(r.token)) =>
                        r.match_marker = matchOpts.match_marker
                /\ ~InSpan(r.token) =>
                        /\ r.match_open = ""
                        /\ r.match_close = ""
                        /\ r.match_marker = ""

\* C4: for a sentence whose match satisfies 0 <= start <= end <= len(tokens),
\* get_sentence_tokens returns left_context = tokens[0:start],
\* match = tokens[start:end], right_context = tokens[end:len(tokens)], and
\* left_context, match and right_context together are the tokens of kind all.
C4_SlicesPartitionTokens ==
    sentence.hasMatch =>
        /\ Called("left_context") =>
              sliceOut["left_context"] = Ok(SubSeq(sentence.tokens, 1, MatchStart))
        /\ Called("match") =>
              sliceOut["match"] =
                  Ok(SubSeq(sentence.tokens, MatchStart + 1, MatchEnd))
        /\ Called("right_context") =>
              sliceOut["right_context"] =
                  Ok(SubSeq(sentence.tokens, MatchEnd + 1, Len(sentence.tokens)))
        /\ (\A k \in TokenKinds : Called(k)) =>
              /\ sliceOut["all"].exc = ""
              /\ sliceOut["left_context"].val \o sliceOut["match"].val
                    \o sliceOut["right_context"].val = sliceOut["all"].val

\* C5: for a sentence without a match field, get_sentence_tokens returns all
\* tokens for left_context and for all, the empty list for match and for
\* right_context, and none of the calls raises.
C5_NoMatchSlices ==
    ~sentence.hasMatch =>
        /\ Called("left_context") =>
              sliceOut["left_context"] = Ok(sentence.tokens)
        /\ Called("all") => sliceOut["all"] = Ok(sentence.tokens)
        /\ Called("match") => sliceOut["match"] = Ok(<<>>)
        /\ Called("right_context") => sliceOut["right_context"] = Ok(<<>>)

-----------------------------------------------------------------------------
(* Strings *)

\* the least index at which pat occurs in s, 0 if it does not occur
FirstAt(s, pat) ==
    IF \E i \in 1..(Len(s) - Len(pat) + 1) :
            SubSeq(s, i, i + Len(pat) - 1) = pat
    THEN CHOOSE i \in 1..(Len(s) - Len(pat) + 1) :
            /\ SubSeq(s, i, i + Len(pat) - 1) = pat
            /\ \A j \in 1..(i - 1) : SubSeq(s, j, j + Len(pat) - 1) # pat
    ELSE 0

RECURSIVE ReplaceAll(_, _, _)
\* re.sub(pat, rep, s) for a literal pattern pat that is not empty: the
\* occurrences are replaced from the left, and none overlaps another
ReplaceAll(s, pat, rep) ==
    IF FirstAt(s, pat) = 0 THEN s
    ELSE SubSeq(s, 1, FirstAt(s, pat) - 1) \o rep
            \o ReplaceAll(SubSeq(s, FirstAt(s, pat) + Len(pat), Len(s)),
                          pat, rep)

RECURSIVE SplitChars(_, _)
\* re.split("[c1c2...]", s) for the set seps of separator characters
SplitChars(s, seps) ==
    LET at == {i \in 1..Len(s) : SubSeq(s, i, i) \in seps}
    IN  IF at = {} THEN <<s>>
        ELSE LET k == CHOOSE i \in at : \A j \in at : i <= j
             IN  <<SubSeq(s, 1, k - 1)>>
                    \o SplitChars(SubSeq(s, k + 1, Len(s)), seps)

RECURSIVE Join(_, _)
\* sep.join(seq)
Join(seq, sep) ==
    IF Len(seq) = 0 THEN ""
    ELSE IF Len(seq) = 1 THEN seq[1]
    ELSE seq[1] \o sep \o Join(Tail(seq), sep)

Range(seq) == {seq[i] : i \in 1..Len(seq)}

\* the lists that list(S) can be for a set S: its items in any order
ListsOf(S) ==
    {seq \in [1..Cardinality(S) -> S] : Range(seq) = S}

\* dict_[key] = value
SetKey(dict_, key, value) ==
    [k \in DOMAIN dict_ \cup {key} |-> IF k = key THEN value ELSE dict_[k]]

-----------------------------------------------------------------------------
(* format/nooj.py: KorpExportFormatterNooJ *)

MaxSentences == 1

MaxContentTokens == 2

rename_dict ==
    [c \in {"\"", ",", "<", ">"} |->
        CASE c = "\"" -> "QUOTE"
          [] c = "," -> "COMMA"
          [] c = "<" -> "A_BRACKET_LEFT"
          [] c = ">" -> "A_BRACKET_RIGHT"]

TokenOutcome(exc, token) == [exc |-> exc, token |-> token]

\* KorpExportFormatterNooJ._format_token, the lemma references: a token
\* that is its own head gets its ref as dephead
NooJ_format_token_dep(token) ==
    IF "dephead" \in DOMAIN token /\ token["dephead"] = "0"
    THEN IF "lemma" \in DOMAIN token
         THEN TokenOutcome("", [token EXCEPT !["dephead"] = token["ref"]])
         ELSE TokenOutcome("KeyError", token)
    ELSE TokenOutcome("", token)

\* KorpExportFormatterNooJ._format_token: the token dict after the call and
\* the exception the call ended with.  The items of msd are joined in the
\* iteration order of a set, which the interpreter chooses.
NooJ_format_token(token) ==
    LET renamed ==
            IF "lemma" \in DOMAIN token /\ token["lemma"] \in DOMAIN rename_dict
            THEN [token EXCEPT !["lemma"] = rename_dict[token["lemma"]]]
            ELSE token
    IN  IF "msd" \notin DOMAIN renamed
        THEN {TokenOutcome("KeyError", renamed)}
        ELSE
        LET subbed ==
                IF renamed["msd"] # ""
                THEN [renamed EXCEPT
                        !["msd"] = ReplaceAll(renamed["msd"], ">>>", "(")]
                ELSE renamed
            categorized ==
                IF "pos" \in DOMAIN subbed
                THEN {[subbed EXCEPT !["msd"] = Join(items, "+")] :
                        items \in ListsOf(
                            Range(SplitChars(subbed["msd"], {"|", " ", ";"}))
                                \ {subbed["pos"]})}
                ELSE {SetKey(subbed, "pos", "UNK")}
        IN  {NooJ_format_token_dep(t) : t \in categorized}

RECURSIVE NooJ_format_tokens(_, _)
\* KorpExportFormatterNooJ._format_tokens for tokens_type all: the tokens
\* from the i-th on are formatted in order, each one modified in place; an
\* exception ends the call
NooJ_format_tokens(tokens, i) ==
    IF i > Len(tokens) THEN {[exc |-> "", tokens |-> tokens]}
    ELSE UNION {
            LET after == [tokens EXCEPT ![i] = o.token]
            IN  IF o.exc # "" THEN {[exc |-> o.exc, tokens |-> after]}
                ELSE NooJ_format_tokens(after, i + 1) :
            o \in NooJ_format_token(tokens[i])}

-----------------------------------------------------------------------------
(* Rendering the content of a query result: state machine *)

ContentPlugins == {"text", "nooj"}

\* the match options in effect for a formatter of the format
PluginMatchOpts(format) ==
    IF format = "text"
    THEN [match_open |-> "<<< ", match_close |-> " >>>", match_marker |-> "*"]
    ELSE [match_open |-> "", match_close |-> "", match_marker |-> "*"]

\* _format_sentence of a formatter of the format: the token lists are
\* fetched first; the NooJ formatter then formats the tokens of kind all
\* with its own _format_token, the others with the base _format_token,
\* which only reads the token.
format_sentence(format, sent) ==
    LET fetched == format_sentence_tokens(sent, PluginMatchOpts(format))
    IN  IF fetched.exc # ""
        THEN {[exc |-> fetched.exc, sentence |-> sent]}
        ELSE IF format = "nooj"
        THEN {[exc |-> o.exc, sentence |-> [sent EXCEPT !.tokens = o.tokens]] :
                o \in NooJ_format_tokens(sent.tokens, 1)}
        ELSE {[exc |-> "", sentence |-> sent]}

RECURSIVE format_sentences(_, _, _)
\* _format_sentences: the sentences from the i-th on are formatted in order
format_sentences(format, kwic, i) ==
    IF i > Len(kwic) THEN {[exc |-> "", kwic |-> kwic]}
    ELSE UNION {
            LET after == [kwic EXCEPT ![i] = o.sentence]
            IN  IF o.exc # "" THEN {[exc |-> o.exc, kwic |-> after]}
                ELSE format_sentences(format, after, i + 1) :
            o \in format_sentence(format, kwic[i])}

\* the attributes of a token: word always, the others optionally
TokenDicts ==
    LET Lemma == {<<>>} \cup {[lemma |-> v] : v \in {"a", ","}}
        Msd == {<<>>} \cup {[msd |-> v] : v \in {"Sg|Nom", "x>>>y"}}
        Pos == {<<>>} \cup {[pos |-> v] : v \in {"Sg"}}
        Dep == {<<>>} \cup
               {[dephead |-> v, ref |-> "1", deprel |-> "ROOT"] :
                    v \in {"0", "2"}}
    IN  {[word |-> "w"] @@ l @@ m @@ p @@ d :
            l \in Lemma, m \in Msd, p \in Pos, d \in Dep}

ContentSentences ==
    {[tokens |-> toks, hasMatch |-> TRUE,
      match |-> [start |-> 0, end |-> Len(toks)]] :
        toks \in UNION {[1..n -> TokenDicts] : n \in 1..MaxContentTokens}}

QueryResults ==
    UNION {[1..n -> ContentSentences] : n \in 0..MaxSentences}

InitContent ==
    /\ TokensIdle
    /\ FormatterIdle
    /\ ExporterIdle
    /\ CallIdle
    /\ py3 \in BOOLEAN
    /\ plugin \in ContentPlugins
    /\ query_result \in QueryResults
    /\ given_result = query_result
    /\ contentOut = "not called"

\* KorpExportFormatter.make_download_content(query_result)
MakeDownloadContent ==
    /\ contentOut = "not called"
    /\ \E o \in format_sentences(plugin, query_result, 1) :
            /\ query_result' = o.kwic
            /\ contentOut' = IF o.exc = "" THEN "content" ELSE o.exc
    /\ UNCHANGED <<py3, tokVars, given_result, plugin, fmtVars, expVars,
                   callVars>>

NextContent == MakeDownloadContent

SpecContent == InitContent /\ [][NextContent]_vars

\* C9: make_download_content leaves the query result it is given unchanged,
\* for every format plugin: after the call every sentence, token and
\* attribute value equals its value before the call.
C9_QueryResultUnchanged ==
    contentOut # "not called" => query_result = given_result

-----------------------------------------------------------------------------
(* Option values and option tables *)

\* An option value is a string, a list of strings or a dict.  A dict value
\* is a reference to the dict object: dict.update copies the reference, so
\* every table that got the value from a class-level table shares the object
\* with the class.
Str(s) == [t |-> "str", s |-> s, l |-> <<>>]

List(l) == [t |-> "list", s |-> "", l |-> l]

DictRef(name) == [t |-> "dict", s |-> name, l |-> <<>>]

\* An option table (a dict from option names to values) is a function.
\* dict_.update(values)
Update(dict_, values) == values @@ dict_

\* The options the model tracks; the tables below are the tables of the
\* source restricted to these keys.
OptionKeys ==
    {"list_valued_opts", "newline", "show_info", "infoitems", "params",
     "sentence_fields", "sentence_field_labels", "sentence_token_attrs",
     "corpus_info_fields", "token_fields", "token_format", "match_open",
     "match_close", "match_marker", "match_field", "title_format",
     "infoitem_format", "delimiter", "quote", "replace_quote",
     "show_field_headings", "content_format", "sentence_format",
     "sentence_sep", "sentence_info_format", "sentence_field_format",
     "sentence_field_sep", "aligned_format", "aligned_sep", "struct_format",
     "struct_sep", "token_noattrs_format", "token_sep", "word_format"}

-----------------------------------------------------------------------------
(* formatter.py and format/*.py: the formatter classes *)

\* The class KorpExportFormatterCSV of format/nooj.py is written
\* nooj.KorpExportFormatterCSV to tell it from that of format/delimited.py.
Parent(cls) ==
    CASE cls \in {"KorpExportFormatterDelimited", "KorpExportFormatterHtml",
                  "KorpExportFormatterJSON", "KorpExportFormatterNooJ",
                  "KorpExportFormatterText", "KorpExportFormatterVRT"} ->
            "KorpExportFormatter"
      [] cls \in {"KorpExportFormatterDelimitedSentence",
                  "KorpExportFormatterDelimitedToken",
                  "KorpExportFormatterDelimitedReference",
                  "KorpExportFormatterCSV", "KorpExportFormatterTSV"} ->
            "KorpExportFormatterDelimited"
      [] cls = "KorpExportFormatterDelimitedSentenceSimple" ->
            "KorpExportFormatterDelimitedSentence"
      [] cls = "KorpExportFormatterHtmlTable" -> "KorpExportFormatterHtml"
      [] cls = "nooj.KorpExportFormatterCSV" -> "KorpExportFormatterNooJ"
      [] OTHER -> "object"

RECURSIVE Linearization(_)
\* cls.__mro__[:-1] of a class of the source: the class and its ancestors
Linearization(cls) ==
    IF Parent(cls) = "object" THEN <<cls>>
    ELSE <<cls>> \o Linearization(Parent(cls))

\* the class attribute formats, where the class body sets it
own_formats(cls) ==
    CASE cls = "KorpExportFormatter" -> <<>>
      [] cls = "KorpExportFormatterDelimitedSentence" ->
            <<"sentence_line", "sentences", "fields_sentence">>
      [] cls = "KorpExportFormatterDelimitedSentenceSimple" ->
            <<"sentence_line_simple", "sentences_simple",
              "fields_sentence_simple">>
      [] cls = "KorpExportFormatterDelimitedToken" ->
            <<"token_line", "tokens", "fields_token", "annotations", "annot">>
      [] cls = "KorpExportFormatterDelimitedReference" ->
            <<"reference", "biblio", "bibref", "ref">>
      [] cls = "KorpExportFormatterCSV" -> <<"csv">>
      [] cls = "KorpExportFormatterTSV" -> <<"tsv">>
      [] cls = "KorpExportFormatterHtml" -> <<"html">>
      [] cls = "KorpExportFormatterHtmlTable" -> <<"html-table", "html_table">>
      [] cls = "KorpExportFormatterJSON" -> <<"json">>
      [] cls = "nooj.KorpExportFormatterCSV" -> <<"nooj">>
      [] cls = "KorpExportFormatterText" -> <<"text">>
      [] cls = "KorpExportFormatterVRT" -> <<"vrt">>
      [] OTHER -> <<>>

\* cls.formats: KorpExportFormatterDelimited and KorpExportFormatterNooJ
\* inherit the empty list of KorpExportFormatter
formats(cls) ==
    IF cls \in {"KorpExportFormatterDelimited", "KorpExportFormatterNooJ"}
    THEN own_formats(Parent(cls))
    ELSE own_formats(cls)

\* the _option_defaults table in the body of a class
option_defaults(cls) ==
    CASE cls = "KorpExportFormatter" ->
            [list_valued_opts |-> List(<<"infoitems", "params", "sentence_fields", "sentence_token_attrs", "corpus_info_fields", "token_fields">>),
             newline |-> Str("\n"),
             show_info |-> Str("True"),
             infoitems |-> Str("date,korp_url,params,hitcount"),
             params |-> Str("corpus,cqp,defaultcontext,defaultwithin,sort,start,end"),
             sentence_fields |-> Str(""),
             sentence_field_labels |-> DictRef("sentence_field_labels"),
             sentence_token_attrs |-> Str(""),
             corpus_info_fields |-> Str(""),
             token_fields |-> Str("word,*attrs"),
             token_format |-> Str("{match_open}{word}[{attrs}]{match_close}"),
             match_open |-> Str(""),
             match_close |-> Str(""),
             match_marker |-> Str("*"),
             title_format |-> Str("{title}\n"),
             infoitem_format |-> Str("{label}:{sp_or_nl}{value}"),
             content_format |-> Str("{info}{sentence_field_headings}{sentences}"),
             sentence_format |-> Str("{info}: {left_context}{match_open}{match}{match_close}{right_context}\n"),
             sentence_sep |-> Str(""),
             sentence_info_format |-> Str("{corpus} {match_pos}"),
             sentence_field_format |-> Str("{value}"),
             sentence_field_sep |-> Str(""),
             aligned_format |-> Str("{sentence}"),
             aligned_sep |-> Str(" | "),
             struct_format |-> Str("{name}: {value}"),
             struct_sep |-> Str("; "),
             token_noattrs_format |-> Str("{match_open}{word}{match_close}"),
             token_sep |-> Str(" "),
             word_format |-> Str("{word}"),
             show_field_headings |-> Str("True")]
      [] cls = "KorpExportFormatterDelimited" ->
            [sentence_fields |-> Str("corpus,urn,metadata_link,licence_name,licence_link,match_pos,left_context,match,right_context,?aligned,*structs"),
             title_format |-> Str("## {title}\n"),
             infoitem_format |-> Str("## {label}:{sp_or_nl}{value}"),
             delimiter |-> Str("\t"),
             quote |-> Str(""),
             replace_quote |-> Str("")]
      [] cls = "KorpExportFormatterDelimitedSentence" ->
            [sentence_fields |-> Str("corpus,?urn,?metadata_link,?licence_name,?licence_link,match_pos,left_context,match,right_context,?aligned,*structs"),
             content_format |-> Str("{sentence_field_headings}{sentences}\n\n{info}"),
             sentence_format |-> Str("{fields}"),
             sentence_sep |-> Str("\n"),
             sentence_field_sep |-> Str("\t")]
      [] cls = "KorpExportFormatterDelimitedToken" ->
            [sentence_fields |-> Str("left_context,match,right_context"),
             token_fields |-> Str("word,*attrs"),
             token_format |-> Str("{fields}\n"),
             match_marker |-> Str("*"),
             match_field |-> Str("0"),
             content_format |-> Str("{info}{token_field_headings}{sentences}"),
             sentence_format |-> Str("{info}{fields}"),
             sentence_info_format |-> Str("# {corpus} ({corpus_info}): sentence {sentence_id}, position {match_pos}; text attributes: {structs}\n"),
             sentence_field_format |-> Str("{value}"),
             sentence_field_sep |-> Str(""),
             struct_format |-> Str("{name}: {value}"),
             token_noattrs_format |-> Str("{fields}\n"),
             token_sep |-> Str("")]
      [] cls = "KorpExportFormatterDelimitedReference" ->
            [corpus_info_fields |-> Str("corpus_name,urn,licence_name,licence_link,metadata_link"),
             token_format |-> Str("{match_open}{word}{match_close}"),
             match_open |-> Str("<<< "),
             match_close |-> Str(" >>>"),
             title_format |-> Str("## {title}\n"),
             infoitem_format |-> Str("## {label}{sp_or_nl}{value}"),
             content_format |-> Str("{info}\n{sentences}"),
             sentence_format |-> Str("sentence\t{tokens}\n{corpus_info}\n{structs}\n"),
             sentence_sep |-> Str("\n"),
             struct_format |-> Str("{name}\t{value}"),
             struct_sep |-> Str("\n")]
      [] cls = "KorpExportFormatterCSV" ->
            [newline |-> Str("\r\n"),
             delimiter |-> Str(","),
             quote |-> Str("\""),
             replace_quote |-> Str("\"\"")]
      [] cls = "KorpExportFormatterTSV" ->
            [delimiter |-> Str("\t"),
             quote |-> Str(""),
             replace_quote |-> Str("")]
      [] cls = "KorpExportFormatterHtml" ->
            <<>>
      [] cls = "KorpExportFormatterHtmlTable" ->
            <<>>
      [] cls = "KorpExportFormatterJSON" ->
            <<>>
      [] cls = "KorpExportFormatterNooJ" ->
            [sentence_fields |-> Str("tokens"),
             token_format |-> Str("<LU LEMMA=\"{lemma}\" CAT=\"{nooj_attrs}\"{nooj_dep}>{word}</LU>"),
             title_format |-> Str("## {title} \n"),
             infoitem_format |-> Str("## {label}:{sp_or_nl}{value}"),
             delimiter |-> Str(","),
             quote |-> Str("\""),
             replace_quote |-> Str("\""),
             content_format |-> Str("{sentences}\n\n<!--\n{info}\n-->"),
             sentence_format |-> Str("<S>{tokens}</S>"),
             sentence_sep |-> Str("\n\n"),
             sentence_field_sep |-> Str(" ")]
      [] cls = "nooj.KorpExportFormatterCSV" ->
            [newline |-> Str("\r\n")]
      [] cls = "KorpExportFormatterText" ->
            [match_open |-> Str("<<< "),
             match_close |-> Str(" >>>"),
             title_format |-> Str("## {title}\n"),
             infoitem_format |-> Str("## {label}:{sp_or_nl}{value}"),
             content_format |-> Str("{info}{sentences}"),
             sentence_format |-> Str("{corpus} [{match_pos}]: {tokens} || {structs}\n"),
             struct_sep |-> Str(" | ")]
      [] cls = "KorpExportFormatterVRT" ->
            [token_format |-> Str("{structs_open}{fields}\n{structs_close}"),
             title_format |-> Str("<!-- {title} -->\n"),
             infoitem_format |-> Str("<!-- {label}:{sp_or_nl}{value} -->"),
             content_format |-> Str("{info}{token_field_headings}<korp_kwic>\n{sentences}</korp_kwic>\n"),
             sentence_format |-> Str("{left_context}<MATCH position=\"{match_pos}\">\n{match}</MATCH>\n{right_context}"),
             token_sep |-> Str("")]
      [] OTHER -> <<>>

\* the _subformat_options table in the body of a class: presets by name
subformat_options(cls, subformat) ==
    CASE cls = "KorpExportFormatterDelimitedSentence"
            /\ subformat = "lemmas-resultinfo" ->
            [show_info |-> Str("false"),
             infoitems |-> Str("date,korp_url"),
             sentence_fields |-> Str("hit_num,corpus,tokens,?lemmas_all,?cleanwords_all,?spokens_all,?originals_all,?normalizeds_all,?searchwords_all,?aligned,*structs,?urn,?metadata_link,?licence_name,date,hitcount,?korp_url,params"),
             sentence_token_attrs |-> Str("lemma,cleanword,spoken,original,normalized,searchword"),
             token_format |-> Str("{match_open}{word}{match_close}"),
             title_format |-> Str("{title}"),
             infoitem_format |-> Str("{value}")]
      [] cls = "KorpExportFormatterDelimitedSentence"
            /\ subformat = "lemmas-kwic" ->
            [sentence_fields |-> Str("hit_num,corpus,left_context,match,right_context,?lemmas_left_context,?lemmas_match,?lemmas_right_context,?cleanwords_left_context,?cleanwords_match,?cleanwords_right_context,?spokens_left_context,?spokens_match,?spokens_right_context,?originals_left_context,?originals_match,?originals_right_context,?normalizeds_left_context,?normalizeds_match,?normalizeds_right_context,?searchwords_left_context,?searchwords_match,?searchwords_right_context?aligned,*structs,?urn,?metadata_link,?licence_name,date,hitcount,?korp_url,params"),
             sentence_token_attrs |-> Str("lemma,cleanword,spoken,original,normalized,searchword")]
      [] cls = "KorpExportFormatterText"
            /\ subformat \in {"sentences-bare", "bare"} ->
            [infoitems |-> Str("date,korp_url"),
             title_format |-> Str("{title}"),
             infoitem_format |-> Str("{value}"),
             sentence_format |-> Str("{tokens}\n")]
      [] OTHER -> <<>>

\* the class body defines the attribute.  KorpExportFormatter defines
\* _subformats, not _subformat_options.
HasOwn(cls, attrname) ==
    CASE attrname = "_option_defaults" ->
            cls \in {"KorpExportFormatter", "KorpExportFormatterDelimited",
                     "KorpExportFormatterDelimitedSentence",
                     "KorpExportFormatterDelimitedToken",
                     "KorpExportFormatterDelimitedReference",
                     "KorpExportFormatterCSV", "KorpExportFormatterTSV",
                     "KorpExportFormatterHtml", "KorpExportFormatterHtmlTable",
                     "KorpExportFormatterJSON", "KorpExportFormatterNooJ",
                     "nooj.KorpExportFormatterCSV", "KorpExportFormatterText",
                     "KorpExportFormatterVRT"}
      [] attrname = "_subformat_options" ->
            cls \in {"KorpExportFormatterDelimitedSentence",
                     "KorpExportFormatterText"}
      [] OTHER -> FALSE

\* KorpExportFormatter._option_defaults["sentence_field_labels"] as the
\* class body defines it
sentence_field_labels_default ==
    [match_pos |-> "match position",
     left_context |-> "left context",
     right_context |-> "right context",
     aligned |-> "aligned text",
     corpus_info |-> "corpus info",
     urn |-> "URN",
     licence_name |-> "licence",
     licence_link |-> "licence link",
     metadata_link |-> "metadata link",
     hit_num |-> "hit number",
     sentence_num |-> "sentence number",
     korp_url |-> "Korp URL",
     korp_server_url |-> "Korp server URL",
     hitcount |-> "total hits",
     spokens |-> "spoken forms",
     originals |-> "original forms",
     normalizeds |-> "normalized forms"]

-----------------------------------------------------------------------------
(* exporter.py: finding and combining the formatter classes *)

\* the pieces of s cut at each character of seps
SplitAt(s, seps) ==
    LET cuts == {i \in 1..Len(s) : SubSeq(s, i, i) \in seps}
        cut(k) ==
            IF k = 0 THEN 0
            ELSE IF k = Cardinality(cuts) + 1 THEN Len(s) + 1
            ELSE CHOOSE p \in cuts : Cardinality({q \in cuts : q <= p}) = k
    IN  [k \in 1..(Cardinality(cuts) + 1) |->
            SubSeq(s, cut(k - 1) + 1, cut(k) - 1)]

\* s.split(sep) for a single character sep
Split(s, sep) == SplitAt(s, {sep})

\* re.split(r"[,;+\s]+", s): a run of separators cuts once, so only the
\* first and the last piece can be empty
SplitFormatNames(s) ==
    LET pieces == SplitAt(s, {",", ";", "+", " ", "\t", "\n", "\r"})
        kept == {i \in 1..Len(pieces) :
                    pieces[i] # "" \/ i = 1 \/ i = Len(pieces)}
        nth(k) == CHOOSE i \in kept : Cardinality({j \in kept : j <= i}) = k
    IN  [k \in 1..Cardinality(kept) |-> pieces[nth(k)]]

Reverse(seq) == [i \in 1..Len(seq) |-> seq[Len(seq) + 1 - i]]

UpperCase == "ABCDEFGHIJKLMNOPQRSTUVWXYZ"

LowerCase == "abcdefghijklmnopqrstuvwxyz"

LowerChar(c) ==
    LET at == {i \in 1..Len(UpperCase) : SubSeq(UpperCase, i, i) = c}
    IN  IF at = {} THEN c
        ELSE LET i == CHOOSE i \in at : TRUE IN SubSeq(LowerCase, i, i)

RECURSIVE Lower(_)
\* s.lower()
Lower(s) ==
    IF Len(s) = 0 THEN s
    ELSE LowerChar(SubSeq(s, 1, 1)) \o Lower(SubSeq(s, 2, Len(s)))

\* The classes with a formats attribute in the modules of the package
\* korpexport.format, in the order _find_formatter_class visits them:
\* modules by name, the names of a module in the order of dir().  The
\* module excel is skipped: its import of cStringIO fails.
FormatterRegistry ==
    <<"KorpExportFormatter", "KorpExportFormatterCSV",
      "KorpExportFormatterDelimited", "KorpExportFormatterDelimitedReference",
      "KorpExportFormatterDelimitedSentence",
      "KorpExportFormatterDelimitedSentenceSimple",
      "KorpExportFormatterDelimitedToken", "KorpExportFormatterTSV",
      "KorpExportFormatter", "KorpExportFormatterHtml",
      "KorpExportFormatterHtmlTable",
      "KorpExportFormatter", "KorpExportFormatterJSON",
      "KorpExportFormatter", "nooj.KorpExportFormatterCSV",
      "KorpExportFormatterNooJ",
      "KorpExportFormatter", "KorpExportFormatterText",
      "KorpExportFormatter", "KorpExportFormatterVRT">>

Found(cls) == [exc |-> "", msg |-> "", cls |-> cls]

NotFound(exc, msg) == [exc |-> exc, msg |-> msg, cls |-> ""]

ClassOk(mro) == [exc |-> "", msg |-> "", mro |-> mro]

ClassError(exc, msg) == [exc |-> exc, msg |-> msg, mro |-> <<>>]

\* KorpExporter._find_formatter_class.  Every module whose import fails is
\* skipped, so where the package format cannot be imported no class is found.
find_formatter_class(format_name, importable) ==
    LET hits == {i \in 1..Len(FormatterRegistry) :
                    format_name \in Range(formats(FormatterRegistry[i]))}
    IN  IF importable /\ hits # {}
        THEN Found(FormatterRegistry[CHOOSE i \in hits : \A j \in hits : i <= j])
        ELSE NotFound("KorpExportError",
                      "No formatter found for format '" \o format_name \o "'")

RECURSIVE C3Merge(_)
\* the merge of the C3 linearization: the first head that is in no tail
C3Merge(lists) ==
    LET rest == SelectSeq(lists, LAMBDA l : Len(l) > 0)
        good == {i \in 1..Len(rest) :
                    \A j \in 1..Len(rest) : Head(rest[i]) \notin Range(Tail(rest[j]))}
    IN  IF Len(rest) = 0 THEN [ok |-> TRUE, mro |-> <<>>]
        ELSE IF good = {} THEN [ok |-> FALSE, mro |-> <<>>]
        ELSE LET c == Head(rest[CHOOSE i \in good : \A j \in good : i <= j])
                 merged == C3Merge([k \in 1..Len(rest) |->
                                      IF Head(rest[k]) = c THEN Tail(rest[k])
                                      ELSE rest[k]])
             IN  [ok |-> merged.ok, mro |-> <<c>> \o merged.mro]

ClassName(cls) ==
    IF cls = "nooj.KorpExportFormatterCSV" THEN "KorpExportFormatterCSV"
    ELSE cls

RECURSIVE JoinClassNames(_)
JoinClassNames(base_classes) ==
    IF Len(base_classes) = 0 THEN ""
    ELSE "_" \o ClassName(Head(base_classes))
            \o JoinClassNames(Tail(base_classes))

\* type(classname, tuple(base_classes), {}): the MRO of the new class, or
\* TypeError for a repeated base class or an inconsistent order
type_(classname, base_classes) ==
    LET merged == C3Merge([i \in 1..Len(base_classes) |->
                                Linearization(base_classes[i])]
                            \o <<base_classes>>)
    IN  IF \E i, j \in 1..Len(base_classes) :
                i # j /\ base_classes[i] = base_classes[j]
        THEN ClassError("TypeError", "duplicate base class")
        ELSE IF ~merged.ok
        THEN ClassError("TypeError",
                        "Cannot create a consistent method resolution order")
        ELSE ClassOk(<<classname>> \o merged.mro)

\* for format_name in format_names:
\*     base_classes.append(self._find_formatter_class(format_name))
find_formatter_classes(format_names, importable) ==
    [i \in 1..Len(format_names) |->
        find_formatter_class(format_names[i], importable)]

\* The class for the looked-up classes found: the class itself for a single
\* format name, a new class that inherits from the classes in their order
\* for several; the first failed lookup raises.
combined_formatter_class(found) ==
    LET failed == {i \in 1..Len(found) : found[i].exc # ""}
        base_classes == [i \in 1..Len(found) |-> found[i].cls]
    IN  IF failed # {}
        THEN ClassError(found[CHOOSE i \in failed : \A j \in failed : i <= j].exc,
                        found[CHOOSE i \in failed : \A j \in failed : i <= j].msg)
        ELSE IF Len(found) = 1
        THEN ClassOk(Linearization(found[1].cls))
        ELSE type_(JoinClassNames(base_classes), base_classes)

\* _get_formatter_class with the classes looked up and inherited from in the
\* listed order of the format names
get_formatter_class_listed_order(format_names_str, importable) ==
    combined_formatter_class(
        find_formatter_classes(SplitFormatNames(format_names_str), importable))

\* KorpExporter._get_formatter_class: a formatter class is given by its MRO.
\* The classes of several format names are looked up from the last name to
\* the first, and the new class inherits from them in that order.
get_formatter_class(format_names_str, importable) ==
    combined_formatter_class(
        find_formatter_classes(Reverse(SplitFormatNames(format_names_str)),
                               importable))

-----------------------------------------------------------------------------
(* formatter.py: the options of a formatter *)

SubformatNames(cls) ==
    CASE cls = "KorpExportFormatterDelimitedSentence" ->
            {"lemmas-resultinfo", "lemmas-kwic"}
      [] cls = "KorpExportFormatterText" -> {"sentences-bare", "bare"}
      [] OTHER -> {}

\* the value of the class attribute in the body of the class
ClassAttr(cls, attrname) ==
    IF attrname = "_option_defaults" THEN option_defaults(cls)
    ELSE [name \in SubformatNames(cls) |-> subformat_options(cls, name)]

\* getattr(superclass, attrname) for a class of the MRO mro: the attribute
\* of the nearest class that defines it, looked up along the MRO of
\* superclass itself; AttributeError if there is none
getattr_(superclass, mro, attrname) ==
    LET own_mro == IF superclass = mro[1] THEN mro
                   ELSE Linearization(superclass)
        definers == {i \in 1..Len(own_mro) : HasOwn(own_mro[i], attrname)}
    IN  IF definers = {} THEN [exc |-> "AttributeError", val |-> <<>>]
        ELSE [exc |-> "",
              val |-> ClassAttr(
                        own_mro[CHOOSE i \in definers : \A j \in definers : i <= j],
                        attrname)]

RECURSIVE combined_values_from(_, _, _)
\* the loop of _get_combined_values after the classes mro[i], ..., of the
\* reversed MRO: the last class of the MRO comes first
combined_values_from(mro, attrname, i) ==
    IF i > Len(mro) THEN <<>>
    ELSE LET combined_values == combined_values_from(mro, attrname, i + 1)
             attr == getattr_(mro[i], mro, attrname)
         IN  IF attr.exc = "" THEN Update(combined_values, attr.val)
             ELSE combined_values

\* KorpExportFormatter._get_combined_values
get_combined_values(mro, attrname) == combined_values_from(mro, attrname, 1)

RECURSIVE update_subformats(_, _, _, _)
\* for subformat in self._subformat_names:
\*     self._opts.update(subformat_opts.get(subformat, {}))
update_subformats(opts, subformat_opts, subformat_names, i) ==
    IF i > Len(subformat_names) THEN opts
    ELSE update_subformats(
            IF subformat_names[i] \in DOMAIN subformat_opts
            THEN Update(opts, subformat_opts[subformat_names[i]])
            ELSE opts,
            subformat_opts, subformat_names, i + 1)

\* __init__ with the options of the caller applied before the subformat
\* presets
KorpExportFormatter_init_options_first(mro, subformat, options) ==
    update_subformats(Update(get_combined_values(mro, "_option_defaults"),
                             options),
                      get_combined_values(mro, "_subformat_options"),
                      subformat, 1)

\* KorpExportFormatter.__init__: self._opts
KorpExportFormatter_init(mro, subformat, options) ==
    Update(update_subformats(get_combined_values(mro, "_option_defaults"),
                             get_combined_values(mro, "_subformat_options"),
                             subformat, 1),
           options)

-----------------------------------------------------------------------------
(* queryresult.py: what occurs in a query result *)

\* A query result is given by its sentences (kwic).  A sentence here has a
\* corpus, a corpus_info (each item a string or a dict, given by the set of
\* its keys) and tokens (dicts).
InfoStr == [isStr |-> TRUE, keys |-> {}]

InfoDict(keys) == [isStr |-> FALSE, keys |-> keys]

\* get_occurring_attrnames(query_result, keys, "tokens")
get_occurring_attrnames(kwic, keys) ==
    LET occurring_keys ==
            UNION {UNION {DOMAIN kwic[i].tokens[j] :
                            j \in 1..Len(kwic[i].tokens)} :
                    i \in 1..Len(kwic)}
    IN  SelectSeq(keys, LAMBDA key : key \in occurring_keys)

get_occurring_corpus_info(kwic) ==
    UNION {
        UNION {
            IF kwic[i].corpus_info[key].isStr THEN {key}
            ELSE {key \o "_" \o subval :
                    subval \in kwic[i].corpus_info[key].keys} :
            key \in DOMAIN kwic[i].corpus_info} :
        i \in 1..Len(kwic)}

Contains(s, c) == \E i \in 1..Len(s) : SubSeq(s, i, i) = c

\* is_parallel_corpus, were it to look at every sentence of the result
is_parallel_corpus_any_sentence(kwic) ==
    \E i \in 1..Len(kwic) : Contains(kwic[i].corpus, "|")

\* is_parallel_corpus: IndexError for no sentence gives False
is_parallel_corpus(kwic) ==
    IF Len(kwic) = 0 THEN FALSE ELSE Contains(kwic[1].corpus, "|")

-----------------------------------------------------------------------------
(* formatter.py: _adjust_opts and _init_sentence_token_attrs *)

StartsWith(s, prefix) ==
    Len(s) >= Len(prefix) /\ SubSeq(s, 1, Len(prefix)) = prefix

EndsWith(s, suffix) ==
    Len(s) >= Len(suffix)
        /\ SubSeq(s, Len(s) - Len(suffix) + 1, Len(s)) = suffix

Chars(s) == [i \in 1..Len(s) |-> SubSeq(s, i, i)]

\* the items that list.extend(value) or a for loop takes from an option
\* value: the items of a list, the characters of a string
ItemsOf(value) ==
    CASE value.t = "list" -> value.l
      [] value.t = "str" -> Chars(value.s)

\* re.match(r'(.*?)e?s_(?:all|match|(?:left|right)_context)', item): the
\* shortest group 1 for which the rest matches; the match need not reach
\* the end of item
sentence_token_attr_match(item) ==
    LET types == {"all", "match", "left_context", "right_context"}
        at == {n \in 0..Len(item) :
                \E tokens_type \in types :
                    \/ StartsWith(SubSeq(item, n + 1, Len(item)),
                                  "es_" \o tokens_type)
                    \/ StartsWith(SubSeq(item, n + 1, Len(item)),
                                  "s_" \o tokens_type)}
    IN  IF at = {} THEN [matched |-> FALSE, group1 |-> ""]
        ELSE [matched |-> TRUE,
              group1 |-> SubSeq(item, 1, CHOOSE n \in at : \A m \in at : n <= m)]

sentence_token_attr_is_available(item, kwic) ==
    LET mo == sentence_token_attr_match(item)
    IN  mo.matched /\ Len(get_occurring_attrnames(kwic, <<mo.group1>>)) > 0

\* the set available_corpus_info that _make_opt_lists computes
available_corpus_info(opts, kwic) ==
    LET occurring == get_occurring_corpus_info(kwic)
        link == IF "urn" \in occurring \/ "url" \in occurring
                THEN {"link"} ELSE {}
        linked == {linktype \o "_link" :
                    linktype \in {lt \in {"licence", "metadata"} :
                        \/ (lt \o "_urn") \in occurring
                        \/ (lt \o "_url") \in occurring}}
        aligned == IF is_parallel_corpus(kwic) THEN {"aligned"} ELSE {}
    IN  occurring \cup link \cup linked \cup aligned
            \cup ({"korp_url", "korp_server_url"} \cap DOMAIN opts)

info_is_available(item, opts, kwic) ==
    \/ item \in available_corpus_info(opts, kwic)
    \/ sentence_token_attr_is_available(item, kwic)

\* adjust_item of _make_opt_lists; opts is self._opts at the time of the call
adjust_item(item, opts, available_opts, kwic) ==
    IF StartsWith(item, "*")
    THEN IF SubSeq(item, 2, Len(item)) \in DOMAIN opts
         THEN ItemsOf(opts[SubSeq(item, 2, Len(item))])
         ELSE <<>>
    ELSE IF StartsWith(item, "?")
    THEN IF info_is_available(SubSeq(item, 2, Len(item)), available_opts, kwic)
         THEN <<SubSeq(item, 2, Len(item))>>
         ELSE <<>>
    ELSE <<item>>

RECURSIVE adjusted_list(_, _, _, _, _)
\* the loop over the items of a split option that builds adjusted_list
adjusted_list(items, i, opts, available_opts, kwic) ==
    IF i > Len(items) THEN <<>>
    ELSE adjust_item(items[i], opts, available_opts, kwic)
            \o adjusted_list(items, i + 1, opts, available_opts, kwic)

\* the body of the loop of _make_opt_lists for one optkey.  The option is
\* first replaced by the list of its unadjusted items, which is what an
\* item *optkey of the option itself splices in.
make_opt_list(opts, optkey, available_opts, kwic) ==
    IF optkey \notin DOMAIN opts \/ opts[optkey].t # "str" THEN opts
    ELSE IF opts[optkey].s = ""
    THEN [opts EXCEPT ![optkey] = List(<<>>)]
    ELSE LET items == Split(opts[optkey].s, ",")
             split_opts == [opts EXCEPT ![optkey] = List(items)]
         IN  [opts EXCEPT ![optkey] =
                List(adjusted_list(items, 1, split_opts, available_opts, kwic))]

RECURSIVE make_opt_lists_from(_, _, _, _, _)
make_opt_lists_from(opts, optkeys, i, available_opts, kwic) ==
    IF i > Len(optkeys) THEN opts
    ELSE make_opt_lists_from(
            make_opt_list(opts, optkeys[i], available_opts, kwic),
            optkeys, i + 1, available_opts, kwic)

\* KorpExportFormatter._make_opt_lists: available_corpus_info is computed
\* from the options before the loop
make_opt_lists(opts, kwic) ==
    make_opt_lists_from(
        opts,
        IF "list_valued_opts" \in DOMAIN opts
        THEN ItemsOf(opts["list_valued_opts"]) ELSE <<>>,
        1, opts, kwic)

\* KorpExportFormatterDelimitedToken._adjust_opts after the call of the
\* _adjust_opts of its superclass has given opts: the match field is added
\* to token_fields.  For a class without KorpExportFormatterDelimitedToken
\* in its MRO, nothing follows the _adjust_opts of KorpExportFormatter.
add_match_field(mro, opts) ==
    IF "KorpExportFormatterDelimitedToken" \in Range(mro)
        /\ opts["match_field"].s # ""
    THEN IF opts["match_field"].s = "0"
         THEN [opts EXCEPT !["token_fields"] =
                    List(<<"match_mark">> \o opts["token_fields"].l)]
         ELSE [opts EXCEPT !["token_fields"] =
                    List(Append(opts["token_fields"].l, "match_mark"))]
    ELSE opts

\* KorpExportFormatter._adjust_opts, which calls _make_opt_lists
adjust_opts(mro, opts, kwic) == add_match_field(mro, make_opt_lists(opts, kwic))

\* labels.get(key, default)
LabelGet(labels, key, default) ==
    IF key \in DOMAIN labels THEN labels[key] ELSE default

\* the pluralized name of a token attribute
label_base_of(attrname) ==
    IF \E suffix \in {"s", "z", "ch", "sh"} : EndsWith(attrname, suffix)
    THEN attrname \o "es" ELSE attrname \o "s"

\* the body of the loop of _init_sentence_token_attrs for one attrname:
\* the entries it stores in labels
init_sentence_token_attr(labels, attrname) ==
    LET label_base == label_base_of(attrname)
        label_base_readable == LabelGet(labels, label_base, label_base)
        with_all == SetKey(labels, label_base \o "_all", label_base_readable)
        with_match ==
            SetKey(with_all, label_base \o "_match",
                   LabelGet(with_all, "match", "match") \o " "
                        \o label_base_readable)
        with_left ==
            SetKey(with_match, label_base \o "_left_context",
                   LabelGet(with_match, "left_context", "left_context") \o " "
                        \o label_base_readable)
    IN  SetKey(with_left, label_base \o "_right_context",
               LabelGet(with_left, "right_context", "right_context") \o " "
                    \o label_base_readable)

RECURSIVE init_sentence_token_attrs_from(_, _, _)
init_sentence_token_attrs_from(labels, attrs, i) ==
    IF i > Len(attrs) THEN labels
    ELSE init_sentence_token_attrs_from(
            init_sentence_token_attr(labels, attrs[i]), attrs, i + 1)

\* KorpExportFormatter._init_sentence_token_attrs: the dict that
\* self._opts["sentence_field_labels"] refers to, after the call
init_sentence_token_attrs(opts, labels) ==
    init_sentence_token_attrs_from(
        labels,
        IF "sentence_token_attrs" \in DOMAIN opts
        THEN ItemsOf(opts["sentence_token_attrs"]) ELSE <<>>,
        1)

-----------------------------------------------------------------------------
(* Formatters and their options: state machine *)

MaxFormatters == 2

MaxCalls == 2

\* form.get(key, default)
FormGet(form, key, default) ==
    IF key \in DOMAIN form THEN form[key] ELSE default

\* The rest of KorpExporter._get_formatter once _get_formatter_class has
\* given formatter_class, for an exporter with the form and options
\* exporter_opts, called with the keyword argument options: the outcome and
\* the new formatter.  The constructor of KorpExportFormatterHtml calls
\* dict.iteritems, which Python 3 does not have.
new_formatter(form, exporter_opts, options, formatter_class) ==
    LET subformat_names ==
            IF FormGet(form, "subformat", "") # ""
            THEN Split(form["subformat"], ",") ELSE <<>>
        opts == Update(exporter_opts, options)
    IN  IF formatter_class.exc # ""
        THEN [exc |-> formatter_class.exc, msg |-> formatter_class.msg,
              formatter |-> NoFormatter]
        ELSE IF py3 /\ "KorpExportFormatterHtml" \in Range(formatter_class.mro)
        THEN [exc |-> "AttributeError",
              msg |-> "'dict' object has no attribute 'iteritems'",
              formatter |-> NoFormatter]
        ELSE [exc |-> "", msg |-> "",
              formatter |->
                [exists |-> TRUE, form |-> form,
                 exporter_opts |-> exporter_opts, options |-> options,
                 mro |-> formatter_class.mro, subformat |-> subformat_names,
                 opts |-> KorpExportFormatter_init(formatter_class.mro,
                                                   subformat_names, opts),
                 sentence_token_attrs |-> <<>>, query_result |-> <<>>,
                 content_options |-> <<>>]]

\* KorpExporter._get_formatter: the class for the format of the form, then
\* its instance
get_formatter(form, exporter_opts, options, importable) ==
    new_formatter(form, exporter_opts, options,
                  get_formatter_class(Lower(FormGet(form, "format", "json")),
                                      importable))

FormatRequests ==
    {"text", "csv", "tokens,csv", "csv,tokens", "csv;tsv", "TSV+csv",
     "sentences,sentences_simple", "sentences_simple,sentences", "html",
     "tokens,bogus"}

Forms ==
    {<<>>}
    \cup {[format |-> f] : f \in FormatRequests}
    \cup {[format |-> "text", subformat |-> "bare"],
          [format |-> "sentences",
           subformat |-> "lemmas-kwic,lemmas-resultinfo"],
          [format |-> "sentences",
           subformat |-> "lemmas-resultinfo,lemmas-kwic"]}

ExporterOptions ==
    {<<>>,
     [delimiter |-> Str(";"), infoitems |-> Str("date,*params,?korp_url"),
      sentence_fields |-> Str("corpus,?lemmas_all,?urn,corpus,*structs,*no"),
      structs |-> List(<<"text_title">>),
      korp_url |-> Str("https://korp.csc.fi/")]}

GetFormatterOptions ==
    {<<>>, [delimiter |-> Str("|"), sentence_token_attrs |-> Str("pos")]}

ContentOptions ==
    {<<>>,
     [delimiter |-> Str(":"), params |-> Str("corpus,cqp"),
      corpus_info_fields |-> Str("*infoitems,urn")],
     [sentence_token_attrs |-> Str("lemma,lemma"),
      token_fields |-> Str("word,*token_fields,*title_format"),
      title_format |-> Str("ab")]}

FormatterResults ==
    {<<>>,
     <<[corpus |-> "C",
        corpus_info |-> [urn |-> InfoStr, licence |-> InfoDict({"url"})],
        tokens |-> <<[word |-> "w", lemma |-> "l"]>>]>>}

Init ==
    /\ TokensIdle
    /\ ContentIdle
    /\ ExporterIdle
    /\ CallIdle
    /\ py3 = TRUE
    /\ format_importable \in BOOLEAN
    /\ sentence_field_labels = sentence_field_labels_default
    /\ formatter = NoFormatter
    /\ formatterOut = NoOutcome
    /\ made = 0

\* an exporter gets its formatter: KorpExporter._get_formatter
GetFormatter ==
    /\ made < MaxFormatters
    /\ \E form \in Forms, exporter_opts \in ExporterOptions,
          options \in GetFormatterOptions :
        \E got \in {get_formatter(form, exporter_opts, options,
                                  format_importable)} :
            /\ formatter' = got.formatter
            /\ formatterOut' = [exc |-> got.exc, msg |-> got.msg]
    /\ made' = made + 1
    /\ UNCHANGED <<py3, tokVars, contentVars, format_importable,
                   sentence_field_labels, expVars, callVars>>

\* make_download_content for the formatter fmt once _adjust_opts has given
\* opts, up to the rendering of the content: the formatter keeps the
\* options, the query result and its sentence token attributes, and the
\* sentence field labels are initialized.  The labels are those of the dict
\* the option sentence_field_labels refers to, which is the dict of the
\* class-level table.
content_made(fmt, labels, kwic, options, opts) ==
    [formatter |->
        [fmt EXCEPT
            !.opts = opts,
            !.sentence_token_attrs =
                IF "sentence_token_attrs" \in DOMAIN opts
                THEN ItemsOf(opts["sentence_token_attrs"])
                ELSE <<>>,
            !.query_result = kwic,
            !.content_options = Append(@, options)],
     labels |-> init_sentence_token_attrs(opts, labels)]

\* KorpExportFormatter.make_download_content(query_result, options=options)
\* up to the rendering of the content: self._opts.update(options) and
\* self._adjust_opts(), then the rest
make_download_content(fmt, labels, kwic, options) ==
    content_made(fmt, labels, kwic, options,
                 adjust_opts(fmt.mro, Update(fmt.opts, options), kwic))

FormatterMakeDownloadContent ==
    /\ formatter.exists
    /\ Len(formatter.content_options) < MaxCalls
    /\ \E kwic \in FormatterResults, options \in ContentOptions :
        \E made_ \in {make_download_content(formatter, sentence_field_labels,
                                            kwic, options)} :
            /\ formatter' = made_.formatter
            /\ sentence_field_labels' = made_.labels
    /\ UNCHANGED <<py3, tokVars, contentVars, format_importable,
                   formatterOut, made, expVars, callVars>>

Next == GetFormatter \/ FormatterMakeDownloadContent

Spec == Init /\ [][Next]_vars

-----------------------------------------------------------------------------
(* Properties of the formatter options *)

Last(seq) == seq[Len(seq)]

\* the class that handles a format name, and the option defaults a
\* formatter of that class alone would have
PluginClass(format_name) == find_formatter_class(format_name, TRUE).cls

PluginDefaults(cls) == get_combined_values(Linearization(cls), "_option_defaults")

RequestedFormats ==
    IF formatter.exists /\ "format" \in DOMAIN formatter.form
    THEN SplitFormatNames(Lower(formatter.form["format"]))
    ELSE <<>>

\* a formatter for two jointly named formats, just constructed without
\* subformat presets
TwoFormatsConstructed ==
    /\ formatter.exists
    /\ Len(RequestedFormats) = 2
    /\ formatter.subformat = <<>>
    /\ formatter.content_options = <<>>

\* the option keys to which the plugins of both formats give default
\* values that differ and which no option of the request overrides
ConflictingKeys(A, B) ==
    {k \in DOMAIN PluginDefaults(A) \cap DOMAIN PluginDefaults(B) :
        /\ PluginDefaults(A)[k] # PluginDefaults(B)[k]
        /\ k \notin DOMAIN formatter.exporter_opts
        /\ k \notin DOMAIN formatter.options}

\* the classes of the inheritance chain of B that are not in that of A
PrivateChain(B, A) ==
    SelectSeq(Linearization(B), LAMBDA c : c \notin Range(Linearization(A)))

\* C1 (as the code has it): for a formatter of two jointly named formats
\* 'A,B', an option key to which the plugins of A and B give different
\* defaults has the default of the last-named format B where the class of B
\* or an ancestor of it that A does not share sets the key, and the default
\* of the first-named format A otherwise.
C1_LaterFormatModifiesFirst ==
    TwoFormatsConstructed =>
        LET A == PluginClass(RequestedFormats[1])
            B == PluginClass(RequestedFormats[2])
        IN  \A k \in ConflictingKeys(A, B) :
                formatter.opts[k] =
                    IF \E i \in 1..Len(PrivateChain(B, A)) :
                            k \in DOMAIN option_defaults(PrivateChain(B, A)[i])
                    THEN PluginDefaults(B)[k]
                    ELSE PluginDefaults(A)[k]

\* 'tokens,csv': the delimiter and the newline are those of csv, the token
\* format is that of tokens
C1_Witness ==
    /\ TwoFormatsConstructed
    /\ RequestedFormats = <<"tokens", "csv">>
    /\ formatter.exporter_opts = <<>>
    /\ formatter.options = <<>>
    /\ {"delimiter", "token_format"}
            \subseteq ConflictingKeys("KorpExportFormatterDelimitedToken",
                                      "KorpExportFormatterCSV")
    /\ formatter.opts["delimiter"] = Str(",")
    /\ formatter.opts["token_format"] = Str("{fields}\n")

\* C1 as stated: every option key to which the plugins of A and B give
\* different defaults has the default of the first-named format A.
C1_FirstNamedFormatWins ==
    TwoFormatsConstructed =>
        LET A == PluginClass(RequestedFormats[1])
            B == PluginClass(RequestedFormats[2])
        IN  \A k \in ConflictingKeys(A, B) :
                formatter.opts[k] = PluginDefaults(A)[k]

\* The layers of option tables of a formatter in increasing priority: the
\* defaults of the classes from KorpExportFormatter down the inheritance
\* chain to the class of the formatter, the requested subformat presets in
\* the listed order, the options of the exporter and those given to
\* _get_formatter, the options of each make_download_content call.
OptionLayers ==
    LET definers == SelectSeq(formatter.mro,
                              LAMBDA c : HasOwn(c, "_option_defaults"))
        preset_classes(name) ==
            SelectSeq(formatter.mro, LAMBDA c : name \in SubformatNames(c))
        preset(name) ==
            IF Len(preset_classes(name)) = 0 THEN <<>>
            ELSE subformat_options(Head(preset_classes(name)), name)
    IN  [i \in 1..Len(definers) |->
            option_defaults(definers[Len(definers) + 1 - i])]
        \o [i \in 1..Len(formatter.subformat) |-> preset(formatter.subformat[i])]
        \o <<formatter.exporter_opts, formatter.options>>
        \o formatter.content_options

LayerKeys == UNION {DOMAIN OptionLayers[i] : i \in 1..Len(OptionLayers)}

\* the value of the highest-priority layer that defines key
LayeredValue(key) ==
    LET defining == {i \in 1..Len(OptionLayers) : key \in DOMAIN OptionLayers[i]}
    IN  OptionLayers[CHOOSE i \in defining : \A j \in defining : j <= i][key]

\* a comma-separated string without items *name or ?name
PlainItems(str) ==
    \A i \in 1..Len(Split(str, ",")) :
        /\ ~StartsWith(Split(str, ",")[i], "*")
        /\ ~StartsWith(Split(str, ",")[i], "?")

\* the list value of a list-valued option without the field that
\* KorpExportFormatterDelimitedToken adds to token_fields
ListItems(key) ==
    IF key = "token_fields"
            /\ "KorpExportFormatterDelimitedToken" \in Range(formatter.mro)
    THEN SelectSeq(formatter.opts[key].l, LAMBDA item : item # "match_mark")
    ELSE formatter.opts[key].l

C8_ClassTablesUnchanged ==
    sentence_field_labels = sentence_field_labels_default

\* the expansion of an item of a list-valued option, where an item *name
\* stands for the items of the expanded list value of the option name
ExpandedItem(item, opts, expanded, kwic) ==
    IF StartsWith(item, "*")
    THEN IF SubSeq(item, 2, Len(item)) \in DOMAIN expanded
         THEN expanded[SubSeq(item, 2, Len(item))].l
         ELSE <<>>
    ELSE IF StartsWith(item, "?")
    THEN IF info_is_available(SubSeq(item, 2, Len(item)), opts, kwic)
         THEN <<SubSeq(item, 2, Len(item))>>
         ELSE <<>>
    ELSE <<item>>

RECURSIVE ExpandedItems(_, _, _, _, _)
ExpandedItems(items, i, opts, expanded, kwic) ==
    IF i > Len(items) THEN <<>>
    ELSE ExpandedItem(items[i], opts, expanded, kwic)
            \o ExpandedItems(items, i + 1, opts, expanded, kwic)

\* the items *name of the comma-separated value of optkey name absent
\* options or other list-valued options
RefersToLists(optkey, opts) ==
    \A i \in 1..Len(Split(opts[optkey].s, ",")) :
        LET item == Split(opts[optkey].s, ",")[i]
            name == SubSeq(item, 2, Len(item))
        IN  StartsWith(item, "*") =>
                \/ name \notin DOMAIN opts
                \/ /\ name # optkey
                   /\ \/ opts[name].t = "list"
                      \/ name \in Range(opts["list_valued_opts"].l)

\* C10: make_download_content expands every list-valued option given as a
\* comma-separated string to the in-order concatenation of the expansions
\* of its items: [name] for a plain item, the items of the expanded list
\* value of the option name for an item *name (nothing if the option is
\* absent), [name] or nothing for an item ?name; the empty string expands
\* to the empty list.
C10_ListOptionExpansion ==
    [][FormatterMakeDownloadContent =>
        LET opts == Update(formatter.opts, Last(formatter'.content_options))
            expanded == formatter'.opts
            kwic == formatter'.query_result
        IN  \A optkey \in Range(opts["list_valued_opts"].l) :
                (/\ optkey \in DOMAIN opts
                 /\ opts[optkey].t = "str"
                 /\ RefersToLists(optkey, opts)
                 /\ ~(optkey = "token_fields"
                        /\ "KorpExportFormatterDelimitedToken"
                                \in Range(formatter.mro)))
                => expanded[optkey] =
                    IF opts[optkey].s = "" THEN List(<<>>)
                    ELSE List(ExpandedItems(Split(opts[optkey].s, ","), 1,
                                            opts, expanded, kwic))]_vars

-----------------------------------------------------------------------------
(* exporter.py: the exporter *)

MaxExporters == 2

MaxExports == 2

\* KorpExporter._query_korp_server under Python 3: the exceptions it can
\* raise.  The encoded query parameters are a str: urlopen refuses str POST
\* data with TypeError before it connects; Popen raises OSError if the
\* program cannot be run, and communicate refuses str input with TypeError.
query_korp_server(url_or_progname) ==
    IF StartsWith(url_or_progname, "http")
    THEN {"TypeError"}
    ELSE {"OSError", "TypeError"}

\* KorpExporter._extract_options for a form without the fields attrs and
\* structs: the options of the formatter, each overridden by the form field
\* of the same name, with korp_url and korp_server_url
extract_options(form, formatter_opts, korp_server_url) ==
    LET opts == [opt_name \in DOMAIN formatter_opts |->
                    IF opt_name \in DOMAIN form THEN Str(form[opt_name])
                    ELSE formatter_opts[opt_name]]
        with_url == IF FormGet(form, "korp_url", "") # ""
                    THEN SetKey(opts, "korp_url", Str(form["korp_url"]))
                    ELSE opts
    IN  SetKey(with_url, "korp_server_url",
               Str(IF korp_server_url # "" THEN korp_server_url
                   ELSE FormGet(form, "korp_server_url", "")))

Exported(exp, fmt, labels, out) ==
    [exporter |-> exp, formatter |-> fmt, labels |-> labels, out |-> out]

ExportRaised(exc, msg, processed, got_result) ==
    [exc |-> exc, msg |-> msg, result |-> "none", processed |-> processed,
     got_result |-> got_result]

ExportReturned(result) ==
    [exc |-> "", msg |-> "", result |-> result, processed |-> TRUE,
     got_result |-> TRUE]

\* the content that the formatter has made is returned
export_content(exp, made_) ==
    Exported(exp, made_.formatter, made_.labels, ExportReturned("content"))

\* KorpExporter.process_query for the exporter exp whose form has a
\* query_result field and whose formatter has the options formatter_opts:
\* the exporter with the query result of the form and, unless the result is
\* a failure record or lacks the sentence list, the extracted options
process_query(exp, form, formatter_opts, korp_server_url) ==
    LET result == form["query_result"]
        queried == [exp EXCEPT !.has_result = TRUE, !.query_result = result]
    IN  IF "ERROR" \in DOMAIN result \/ "kwic" \notin DOMAIN result
        THEN queried
        ELSE [queried EXCEPT
                !.opts = extract_options(form, formatter_opts,
                                         korp_server_url)]

\* make_download_file after process_query has given the exporter exp with a
\* query result: _add_corpus_info, the return of a failure record and the
\* call of the formatter
export_query_result(exp, fmt, labels, server_exc) ==
    LET result == exp.query_result
    IN  IF "kwic" \in DOMAIN result /\ Len(result["kwic"]) > 0
        THEN Exported(exp, fmt, labels,
                      ExportRaised(server_exc, "", TRUE, TRUE))
        ELSE IF "kwic" \notin DOMAIN result
        THEN Exported(exp, fmt, labels,
                      ExportRaised("KeyError", "'kwic'", TRUE, TRUE))
        ELSE IF "ERROR" \in DOMAIN result
        THEN Exported(exp, fmt, labels, ExportReturned("query_result"))
        ELSE export_content(exp, make_download_content(
                                    fmt, labels, result["kwic"], exp.opts))

\* make_download_file for the exporter exp, whose form is that of the call,
\* once self._formatter or self._get_formatter of the kwargs has given got
export_with_formatter(exp, fmt, labels, korp_server_url, got, server_exc) ==
    IF got.exc # ""
    THEN Exported(exp, fmt, labels,
                  ExportRaised(got.exc, got.msg, FALSE, FALSE))
    ELSE IF "query_result" \notin DOMAIN exp.form
    THEN Exported(exp, got.formatter, labels,
                  ExportRaised(server_exc, "", TRUE, FALSE))
    ELSE export_query_result(
            process_query(exp, exp.form, got.formatter.opts, korp_server_url),
            got.formatter, labels, server_exc)

\* KorpExporter.make_download_file(korp_server_url, **kwargs) under Python 3
\* for the exporter exp with the formatter fmt (NoFormatter for None):
\* the exporter, its formatter and the class-level labels after the call,
\* and the outcome.  server_exc is the exception that a query to the Korp
\* server raises.  The result is "query_result" where the query result
\* record itself is returned and "content" where the content that the
\* formatter makes of the query result is returned.
make_download_file(exp, fmt, labels, korp_server_url, kwargs, importable, server_exc) ==
    LET form == IF "form" \in DOMAIN kwargs THEN kwargs["form"] ELSE exp.form
    IN  export_with_formatter(
            [exp EXCEPT !.form = form, !.calls = @ + 1], fmt, labels,
            korp_server_url,
            IF fmt.exists
            THEN [exc |-> "", msg |-> "", formatter |-> fmt]
            ELSE get_formatter(form, exp.opts, <<>>, importable),
            server_exc)

KorpServers == {"http://korp/cgi-bin/korp.cgi", "/var/www/cgi-bin/korp.cgi"}

\* query results as Korp gives them: a failure record, a failure record
\* with a sentence list, results with no sentence and with one sentence,
\* and a record with neither
ExportResults ==
    {[ERROR |-> "error"],
     [ERROR |-> "error", kwic |-> <<>>],
     [kwic |-> <<>>, hits |-> 0],
     [kwic |-> <<[corpus |-> "C", tokens |-> <<[word |-> "w"]>>]>>, hits |-> 1],
     [hits |-> 0]}

ExportFormats == {"text", "tokens,csv", "bogus", "tokens,bogus"}

ExportForms ==
    {[format |-> f] : f \in ExportFormats}
    \cup {[format |-> f, query_result |-> r] :
            f \in ExportFormats, r \in ExportResults}
    \cup {[query_result |-> [kwic |-> <<>>, hits |-> 0],
           delimiter |-> ";", korp_url |-> "https://korp.csc.fi/"]}

KwargForms ==
    {form \in ExportForms :
        /\ "format" \in DOMAIN form
        /\ "query_result" \in DOMAIN form
        /\ form["format"] \in {"text", "bogus"}
        /\ form["query_result"] \in {[ERROR |-> "error"],
                                     [kwic |-> <<>>, hits |-> 0]}}

ExportKwargs == {<<>>} \cup {[form |-> form] : form \in KwargForms}

InitExport ==
    /\ TokensIdle
    /\ ContentIdle
    /\ ExporterIdle
    /\ CallIdle
    /\ py3 = TRUE
    /\ format_importable \in BOOLEAN
    /\ sentence_field_labels = sentence_field_labels_default
    /\ formatter = NoFormatter
    /\ formatterOut = NoOutcome
    /\ made = 0

\* KorpExporter(form, options=options)
NewExporter ==
    /\ constructed < MaxExporters
    /\ \E form \in ExportForms,
          options \in {<<>>, [sentence_token_attrs |-> Str("lemma")]} :
            exporter' = [exists |-> TRUE, form |-> form, opts |-> options,
                         has_result |-> FALSE, query_result |-> <<>>,
                         calls |-> 0]
    /\ formatter' = NoFormatter
    /\ exportOut' = NoExport
    /\ constructed' = constructed + 1
    /\ UNCHANGED <<py3, tokVars, contentVars, format_importable,
                   sentence_field_labels, formatterOut, made, callVars>>

\* exporter.make_download_file(korp_server_url, **kwargs)
MakeDownloadFile ==
    /\ exporter.exists
    /\ exporter.calls < MaxExports
    /\ \E korp_server_url \in KorpServers, kwargs \in ExportKwargs :
        \E server_exc \in query_korp_server(korp_server_url) :
        \E exported \in {make_download_file(
                            exporter, formatter, sentence_field_labels,
                            korp_server_url, kwargs, format_importable,
                            server_exc)} :
            /\ exporter' = exported.exporter
            /\ formatter' = exported.formatter
            /\ sentence_field_labels' = exported.labels
            /\ exportOut' = exported.out
    /\ UNCHANGED <<py3, tokVars, contentVars, format_importable,
                   formatterOut, made, constructed, callVars>>

NextExport == NewExporter \/ MakeDownloadFile

SpecExport == InitExport /\ [][NextExport]_vars

\* the format names of the form of the exporter
ExportedFormats == SplitFormatNames(Lower(FormGet(exporter.form, "format", "json")))

\* the requested format names that match no formatter class
UnknownFormats ==
    {ExportedFormats[i] : i \in {j \in 1..Len(ExportedFormats) :
        find_formatter_class(ExportedFormats[j], format_importable).exc # ""}}

\* C6: make_download_file for a form whose format names a format that no
\* formatter class handles (alone or among several names) raises
\* KorpExportError with a message that names such a format, before the
\* query is processed and without any content.
C6_UnknownFormatFails ==
    (exportOut.exc # "not called" /\ UnknownFormats # {}) =>
        /\ exportOut.exc = "KorpExportError"
        /\ \E name \in UnknownFormats :
                exportOut.msg = "No formatter found for format '" \o name \o "'"
        /\ ~exportOut.processed
        /\ exportOut.result = "none"

\* C7: when the backend returns a failure record (with ERROR, without a
\* sentence list), make_download_file does not raise and returns the content
\* that the formatter makes of a result without sentences.
C7_FailureRecordRendersEmpty ==
    (/\ exportOut.got_result
     /\ "ERROR" \in DOMAIN exporter.query_result
     /\ "kwic" \notin DOMAIN exporter.query_result)
    => /\ exportOut.exc = ""
       /\ exportOut.result = "content"
       /\ formatter.exists
       /\ formatter.query_result = <<>>

-----------------------------------------------------------------------------
(* formatter.py: the list items ?name of _make_opt_lists: state machine *)

\* the names tested, the positional attributes that the token of the result
\* may carry besides word, and the corpus info keys of its sentence
InfoNames ==
    {"lemmas_all", "lemma_all", "lemmaes_all", "cases_all", "cases_match",
     "poss_left_context", "names_right_context", "urn", "link", "date",
     "aligned", "korp_url"}

InfoAttrs == {"lemma", "case", "pos"}

InfoKeys == {"urn", "date"}

InfoCorpora == {"news", "fi|sv"}

\* the query result (kwic) of a call: one sentence of one token
InfoResult(a) ==
    <<[corpus |-> a.corpus,
       corpus_info |-> [key \in a.keys |-> InfoStr],
       tokens |-> <<[attr \in a.attrs \cup {"word"} |-> "w"]>>]>>

\* self._opts of the call, as far as adjust_item reads it
InfoOpts(a) ==
    IF a.korp_url THEN SetKey(<<>>, "korp_url", Str("http://korp/")) ELSE <<>>

InitInfo ==
    /\ TokensIdle
    /\ ContentIdle
    /\ FormatterIdle
    /\ ExporterIdle
    /\ py3 = TRUE
    /\ args \in [name : InfoNames, attrs : SUBSET InfoAttrs,
                 keys : SUBSET InfoKeys, corpus : InfoCorpora,
                 korp_url : BOOLEAN]
    /\ returned = NotCalled

\* adjust_item("?" + name) in _make_opt_lists
AdjustItem ==
    /\ returned.exc = "not called"
    /\ returned' = Ok(adjust_item("?" \o args.name, InfoOpts(args),
                                  InfoOpts(args), InfoResult(args)))
    /\ UNCHANGED <<py3, tokVars, contentVars, fmtVars, expVars, args>>

NextInfo == AdjustItem

SpecInfo == InitInfo /\ [][NextInfo]_vars

\* the positional attributes that occur in a token of the result
OccurringAttrs ==
    UNION {UNION {DOMAIN InfoResult(args)[i].tokens[j] :
                    j \in 1..Len(InfoResult(args)[i].tokens)} :
            i \in 1..Len(InfoResult(args))}

\* name is <attr>s_<slice> for an attribute attr that occurs in the result
IsOccurringAttrField(name) ==
    \E attr \in OccurringAttrs :
        \E slice \in {"all", "match", "left_context", "right_context"} :
            name = attr \o "s_" \o slice

\* C11: a list item ?name is kept, as name, if and only if name is an
\* available corpus-info key of the result or name is <attr>s_<slice>, with
\* slice one of all, match, left_context, right_context, for a positional
\* attribute attr that occurs in a token of the result; otherwise the item
\* is dropped.  This holds for every attribute name.
C11_KeptIffAvailable ==
    returned.exc # "not called" =>
        /\ returned.exc = ""
        /\ returned.val =
            IF \/ args.name \in available_corpus_info(InfoOpts(args),
                                                      InfoResult(args))
               \/ IsOccurringAttrField(args.name)
            THEN <<args.name>> ELSE <<>>

-----------------------------------------------------------------------------
(* exporter.py: the show options attrs and structs: state machine *)

MaxShowItems == 3

\* list.remove(x): the first occurrence of x is removed
ListRemove(seq, x) ==
    LET first == CHOOSE i \in 1..Len(seq) :
                    seq[i] = x /\ \A j \in 1..(i - 1) : seq[j] # x
    IN  SubSeq(seq, 1, first - 1) \o SubSeq(seq, first + 1, Len(seq))

\* get_occurring_attrnames(query_result, keys, struct_name): tokens is a
\* list of dicts, structs a dict
get_occurring_names(kwic, keys, struct_name) ==
    LET occurring_keys ==
            UNION {IF struct_name = "tokens"
                   THEN UNION {DOMAIN kwic[i].tokens[j] :
                                j \in 1..Len(kwic[i].tokens)}
                   ELSE DOMAIN kwic[i][struct_name] :
                   i \in 1..Len(kwic)}
    IN  SelectSeq(keys, LAMBDA key : key \in occurring_keys)

RECURSIVE show_vals(_, _, _, _, _)
\* the loop of extract_show_opt over vals from item valnum on; new_vals is
\* the list built so far
show_vals(vals, valnum, new_vals, all_vals, occurring_vals) ==
    IF valnum > Len(vals) THEN new_vals
    ELSE show_vals(
            vals, valnum + 1,
            IF vals[valnum] = "*" THEN new_vals \o all_vals
            ELSE IF vals[valnum] = "+" THEN new_vals \o occurring_vals
            ELSE IF StartsWith(vals[valnum], "-")
            THEN IF SubSeq(vals[valnum], 2, Len(vals[valnum]))
                        \in Range(new_vals)
                 THEN ListRemove(new_vals,
                                 SubSeq(vals[valnum], 2, Len(vals[valnum])))
                 ELSE new_vals
            ELSE Append(new_vals, vals[valnum]),
            all_vals, occurring_vals)

\* extract_show_opt(opt_name, query_param_name, query_result_struct_name) of
\* _extract_options: opts afterwards
extract_show_opt(opts, form, query_params, kwic, opt_name, query_param_name, query_result_struct_name) ==
    IF opt_name \notin DOMAIN form THEN opts
    ELSE SetKey(opts, opt_name,
                List(show_vals(
                        Split(form[opt_name], ","), 1, <<>>,
                        Split(FormGet(query_params, query_param_name, ""),
                              ","),
                        get_occurring_names(
                            kwic,
                            Split(FormGet(query_params, query_param_name,
                                          ""), ","),
                            query_result_struct_name))))

\* the items of the form field
ShowItems == {"*", "+", "lemma", "pos", "-lemma", "-pos"}

\* the values of the form field: up to MaxShowItems items joined by commas
ShowValues ==
    {Join(items, ",") :
        items \in UNION {[1..n -> ShowItems] : n \in 1..MaxShowItems}}

\* the option, its query parameter and its structure in the query result
ShowOpts ==
    {[opt_name |-> "attrs", query_param_name |-> "show",
      query_result_struct_name |-> "tokens"],
     [opt_name |-> "structs", query_param_name |-> "show_struct",
      query_result_struct_name |-> "structs"]}

\* the values of the query parameter; none stands for a missing parameter
ShowParams == {"none", "lemma", "pos,lemma", "lemma,pos,lemma"}

\* the query result: one sentence whose token and structs have the keys
ShowResult(keys) ==
    <<[tokens |-> <<[attr \in keys \cup {"word"} |-> "w"]>>,
       structs |-> [attr \in keys |-> "s"]]>>

\* self._form and self._query_params of the call
ShowForm(a) ==
    IF a.has_field THEN SetKey(<<>>, a.show.opt_name, a.value) ELSE <<>>

ShowQueryParams(a) ==
    IF a.param = "none" THEN <<>>
    ELSE SetKey(<<>>, a.show.query_param_name, a.param)

InitShow ==
    /\ TokensIdle
    /\ ContentIdle
    /\ FormatterIdle
    /\ ExporterIdle
    /\ py3 = TRUE
    /\ args \in [show : ShowOpts, has_field : BOOLEAN, value : ShowValues,
                 param : ShowParams, keys : SUBSET {"lemma", "pos"}]
    /\ returned = NotCalled

\* extract_show_opt in _extract_options, from opts = {}
ExtractShowOpt ==
    /\ returned.exc = "not called"
    /\ returned' = Ok(extract_show_opt(
                        <<>>, ShowForm(args), ShowQueryParams(args),
                        ShowResult(args.keys), args.show.opt_name,
                        args.show.query_param_name,
                        args.show.query_result_struct_name))
    /\ UNCHANGED <<py3, tokVars, contentVars, fmtVars, expVars, args>>

NextShow == ExtractShowOpt

SpecShow == InitShow /\ [][NextShow]_vars

\* the names of the query parameter of the call, and those that occur in
\* the result
ShowAllNames == Split(IF args.param = "none" THEN "" ELSE args.param, ",")

ShowOccurringNames ==
    SelectSeq(ShowAllNames, LAMBDA name : name \in args.keys)

RECURSIVE ShowResolved(_, _, _)
\* the left-to-right resolution: -name leaves no name in the list built so
\* far
ShowResolved(items, i, built) ==
    IF i > Len(items) THEN built
    ELSE ShowResolved(
            items, i + 1,
            IF items[i] = "*" THEN built \o ShowAllNames
            ELSE IF items[i] = "+" THEN built \o ShowOccurringNames
            ELSE IF StartsWith(items[i], "-")
            THEN SelectSeq(built,
                           LAMBDA name :
                               name # SubSeq(items[i], 2, Len(items[i])))
            ELSE Append(built, items[i]))

\* C12: the option attrs (structs) is resolved item by item from left to
\* right: * appends all names of the query parameter show (show_struct),
\* + appends those of these names that occur in the result, -name removes
\* name from the list built so far, so that right after it the list does not
\* contain name, and any other item is appended literally; items appended
\* later are not affected by an earlier -name.
C12_ShowOptResolved ==
    (returned.exc # "not called" /\ args.has_field) =>
        /\ returned.exc = ""
        /\ args.show.opt_name \in DOMAIN returned.val
        /\ returned.val[args.show.opt_name] =
            List(ShowResolved(Split(args.value, ","), 1, <<>>))

-----------------------------------------------------------------------------
(* formatter.py: get_option_int: state machine *)

\* s.strip() for the whitespace character space
Strip(s) ==
    LET inner == {i \in 1..Len(s) : SubSeq(s, i, i) # " "}
    IN  IF inner = {} THEN ""
        ELSE SubSeq(s, CHOOSE i \in inner : \A j \in inner : i <= j,
                    CHOOSE i \in inner : \A j \in inner : j <= i)

IsDigits(s) ==
    Len(s) > 0 /\ \A i \in 1..Len(s) : Contains("0123456789", SubSeq(s, i, i))

RECURSIVE DecimalValue(_)
DecimalValue(s) ==
    IF Len(s) = 0 THEN 0
    ELSE 10 * DecimalValue(SubSeq(s, 1, Len(s) - 1))
            + ((CHOOSE d \in 1..10 :
                    SubSeq("0123456789", d, d) = SubSeq(s, Len(s), Len(s)))
               - 1)

\* int(s) for a string s: surrounding whitespace and a sign are allowed
\* around the decimal digits
int_of_str(s) ==
    LET stripped == Strip(s)
        signed == StartsWith(stripped, "-") \/ StartsWith(stripped, "+")
        digits == IF signed THEN SubSeq(stripped, 2, Len(stripped))
                  ELSE stripped
    IN  IF ~IsDigits(digits) THEN Raise("ValueError")
        ELSE Ok(IF StartsWith(stripped, "-") THEN 0 - DecimalValue(digits)
                ELSE DecimalValue(digits))

\* int(d.get(optname)) for an option table d: None, a list and a dict give
\* TypeError
int_of_option(d, optname) ==
    IF optname \notin DOMAIN d THEN Raise("TypeError")
    ELSE IF d[optname].t # "str" THEN Raise("TypeError")
    ELSE int_of_str(d[optname].s)

\* KorpExportFormatter.get_option_int of a formatter with the options opts
\* whose class has the MRO mro.  self._option_defaults is the table of the
\* nearest class of the MRO whose body defines one.
get_option_int(opts, mro, optname) ==
    IF int_of_option(opts, optname).exc = ""
    THEN Ok(IntVal(int_of_option(opts, optname).val))
    ELSE IF int_of_option(getattr_(mro[1], mro, "_option_defaults").val,
                          optname).exc = ""
    THEN Ok(IntVal(int_of_option(
                    getattr_(mro[1], mro, "_option_defaults").val,
                    optname).val))
    ELSE Ok(NoneVal)

\* the formats, the option names and the option values of the calls; none
\* stands for an option that the caller does not give
IntFormats == {"tokens", "csv", "tokens,csv", "csv,tokens", "sentences", "text"}

IntOptNames == {"match_field", "delimiter", "token_fields", "no_such_option"}

IntOptValues == {"none", "2", " 12 ", "-1", "+3", "x", "", "1.5"}

IntOptions(a) ==
    IF a.value = "none" THEN <<>>
    ELSE SetKey(<<>>, a.optname, Str(a.value))

InitInt ==
    /\ TokensIdle
    /\ ContentIdle
    /\ FormatterIdle
    /\ ExporterIdle
    /\ py3 = TRUE
    /\ args \in [format : IntFormats, optname : IntOptNames,
                 value : IntOptValues]
    /\ returned = NotCalled

\* formatter.get_option_int(optname) for a new formatter of the format with
\* the options
GetOptionInt ==
    /\ returned.exc = "not called"
    /\ \E cls \in {get_formatter_class(args.format, TRUE)} :
        /\ cls.exc = ""
        /\ returned' = get_option_int(
                KorpExportFormatter_init(cls.mro, <<>>, IntOptions(args)),
                cls.mro, args.optname)
    /\ UNCHANGED <<py3, tokVars, contentVars, fmtVars, expVars, args>>

NextInt == GetOptionInt

SpecInt == InitInt /\ [][NextInt]_vars

\* the effective options of the formatter of the call, and the effective
\* default table of its class, inherited defaults included
IntEffectiveOpts ==
    KorpExportFormatter_init(get_formatter_class(args.format, TRUE).mro,
                             <<>>, IntOptions(args))

IntEffectiveDefaults ==
    get_combined_values(get_formatter_class(args.format, TRUE).mro,
                        "_option_defaults")

\* C13: get_option_int(name) never raises; it returns the integer value of
\* the effective option when that value parses as an integer, otherwise the
\* integer value of the default of the option in the effective default table
\* of the plugin (inherited defaults included), otherwise null.
C13_OptionIntOrDefault ==
    returned.exc # "not called" =>
        /\ returned.exc = ""
        /\ returned.val =
            IF int_of_option(IntEffectiveOpts, args.optname).exc = ""
            THEN IntVal(int_of_option(IntEffectiveOpts, args.optname).val)
            ELSE IF int_of_option(IntEffectiveDefaults, args.optname).exc = ""
            THEN IntVal(int_of_option(IntEffectiveDefaults,
                                      args.optname).val)
            ELSE NoneVal

-----------------------------------------------------------------------------
(* queryresult.py: the structural attributes of a sentence: state machine *)

MaxStructs == 2

MaxStructNames == 2

\* A value of a dict that may be None
NoValue == [isNone |-> TRUE, s |-> ""]

StrValue(s) == [isNone |-> FALSE, s |-> s]

\* A dict is given by the list of its (key, value) items in their order.
\* dict_.get(key): None for a missing key
ItemGet(items, key) ==
    IF \E i \in 1..Len(items) : items[i][1] = key
    THEN items[CHOOSE i \in 1..Len(items) : items[i][1] = key][2]
    ELSE NoValue

\* (value or ""), for a value that is a string or None
OrEmpty(value) == IF value.isNone THEN "" ELSE value.s

\* get_sentence_structs(sentence, structnames): sentence.get("structs") is
\* sent.structs where sent.has_structs, else None; structnames is
\* structnames.l unless structnames.isNone
get_sentence_structs(sent, structnames) ==
    IF ~sent.has_structs THEN <<>>
    ELSE IF structnames.isNone
    THEN [i \in 1..Len(sent.structs) |->
            <<sent.structs[i][1], sent.structs[i][2]>>]
    ELSE [i \in 1..Len(structnames.l) |->
            <<structnames.l[i],
              OrEmpty(ItemGet(sent.structs, structnames.l[i]))>>]

StructNames == {"sentence_id", "text_title", "paragraph_n"}

StructValues == {NoValue, StrValue(""), StrValue("s1")}

\* the structs of a sentence: up to MaxStructs items with distinct names
StructDicts ==
    {items \in UNION {[1..n -> (StructNames \X StructValues)] :
                        n \in 0..MaxStructs} :
        \A i, j \in 1..Len(items) : i # j => items[i][1] # items[j][1]}

StructSentences ==
    {[has_structs |-> FALSE, structs |-> <<>>]}
    \cup {[has_structs |-> TRUE, structs |-> items] : items \in StructDicts}

\* structnames: None or a list of up to MaxStructNames names
StructNameLists ==
    {[isNone |-> TRUE, l |-> <<>>]}
    \cup {[isNone |-> FALSE, l |-> l] :
            l \in UNION {[1..n -> {"sentence_id", "text_title"}] :
                            n \in 0..MaxStructNames}}

InitStructs ==
    /\ TokensIdle
    /\ ContentIdle
    /\ FormatterIdle
    /\ ExporterIdle
    /\ py3 = TRUE
    /\ args \in [sent : StructSentences, structnames : StructNameLists]
    /\ returned = NotCalled

GetSentenceStructs ==
    /\ returned.exc = "not called"
    /\ returned' = Ok(get_sentence_structs(args.sent, args.structnames))
    /\ UNCHANGED <<py3, tokVars, contentVars, fmtVars, expVars, args>>

NextStructs == GetSentenceStructs

SpecStructs == InitStructs /\ [][NextStructs]_vars

\* C14: get_sentence_structs(sentence, names) with a list of names returns
\* exactly one (name, value) pair per listed name, in the listed order, with
\* a missing or null value given as the empty string, for every sentence,
\* whether or not it has a structs mapping.
C14_OnePairPerName ==
    (returned.exc # "not called" /\ ~args.structnames.isNone) =>
        /\ returned.exc = ""
        /\ Len(returned.val) = Len(args.structnames.l)
        /\ \A i \in 1..Len(args.structnames.l) :
            /\ i \in DOMAIN returned.val
            /\ returned.val[i] =
                <<args.structnames.l[i],
                  IF \E j \in 1..Len(args.sent.structs) :
                        /\ args.sent.structs[j][1] = args.structnames.l[i]
                        /\ ~args.sent.structs[j][2].isNone
                  THEN args.sent.structs[
                        CHOOSE j \in 1..Len(args.sent.structs) :
                            args.sent.structs[j][1]
                                = args.structnames.l[i]][2].s
                  ELSE "">>

-----------------------------------------------------------------------------
(* formatter.py: the string formatters *)

\* The value of a format argument: a string, None, or a function without
\* arguments (called id) that returns the value r[1].
FStr(s) == [t |-> "str", s |-> s, r |-> <<>>]

FNone == [t |-> "none", s |-> "", r |-> <<>>]

FLazy(id, result) == [t |-> "lazy", s |-> id, r |-> <<result>>]

\* the outcome of a step of an expansion: the exception raised, if any, the
\* object got or the text made, and the functions called, in order
Expanded(exc, obj, text, calls) ==
    [exc |-> exc, obj |-> obj, text |-> text, calls |-> calls]

\* the least index from on of the character c in s, 0 if there is none
FindChar(s, c, from) ==
    IF \E j \in from..Len(s) : SubSeq(s, j, j) = c
    THEN CHOOSE j \in from..Len(s) :
            /\ SubSeq(s, j, j) = c
            /\ \A k \in from..(j - 1) : SubSeq(s, k, k) # c
    ELSE 0

\* the parts field_name and conversion of a replacement field {...}
FieldName(field) ==
    IF FindChar(field, "!", 1) = 0 THEN field
    ELSE SubSeq(field, 1, FindChar(field, "!", 1) - 1)

FieldConversion(field) ==
    IF FindChar(field, "!", 1) = 0 THEN ""
    ELSE SubSeq(field, FindChar(field, "!", 1) + 1, Len(field))

\* string.Formatter.get_value(key, args, kwargs) for args = (): an empty or
\* numeric key is an index into args
Formatter_get_value(key, kwargs) ==
    IF key = "" \/ IsDigits(key) THEN Expanded("IndexError", FNone, "", <<>>)
    ELSE IF key \notin DOMAIN kwargs
    THEN Expanded("KeyError", FNone, "", <<>>)
    ELSE Expanded("", kwargs[key], "", <<>>)

\* _LazyStringFormatter.get_value: a callable value is called
Lazy_get_value(key, kwargs) ==
    IF Formatter_get_value(key, kwargs).exc = ""
            /\ kwargs[key].t = "lazy"
    THEN Expanded("", kwargs[key].r[1], "", <<kwargs[key].s>>)
    ELSE Formatter_get_value(key, kwargs)

\* _PartialStringFormatter.get_field for a field name without attribute
\* and index parts: KeyError gives None
Partial_get_field(field_name, kwargs) ==
    IF Lazy_get_value(field_name, kwargs).exc = "KeyError"
    THEN Expanded("", FNone, "", <<>>)
    ELSE Lazy_get_value(field_name, kwargs)

\* str(obj); the address in the text of a function is left out
str_(obj) ==
    CASE obj.t = "str" -> obj.s
      [] obj.t = "none" -> "None"
      [] obj.t = "lazy" -> "<function " \o obj.s \o ">"

\* string.Formatter.convert_field for the conversions s and r of a value
\* that is not a string (repr and str agree), and for no conversion
convert_field(obj, conversion) ==
    IF conversion = "" THEN Expanded("", obj, "", <<>>)
    ELSE IF conversion \in {"s", "r"} /\ obj.t # "str"
    THEN Expanded("", FStr(str_(obj)), "", <<>>)
    ELSE IF conversion = "s" THEN Expanded("", obj, "", <<>>)
    ELSE IF conversion = "r"
    THEN Expanded("", FStr("'" \o obj.s \o "'"), "", <<>>)
    ELSE Expanded("ValueError", FNone, "", <<>>)

\* _PartialStringFormatter.format_field with an empty format specification
Partial_format_field(value, missing) ==
    IF value.t = "none" THEN missing ELSE str_(value)

\* _LazyPartialStringFormatter.format_field: a callable value is called
LazyPartial_format_field(value, missing) ==
    IF value.t = "lazy"
    THEN Expanded("", FNone, Partial_format_field(value.r[1], missing),
                  <<value.s>>)
    ELSE Expanded("", FNone, Partial_format_field(value, missing), <<>>)

\* the text of a replacement field, once its object has been got
format_got_field(got, conversion, missing) ==
    IF got.exc # "" THEN got
    ELSE IF convert_field(got.obj, conversion).exc # ""
    THEN Expanded(convert_field(got.obj, conversion).exc, FNone, "",
                  got.calls)
    ELSE Expanded(
            "", FNone,
            LazyPartial_format_field(convert_field(got.obj, conversion).obj,
                                     missing).text,
            got.calls
                \o LazyPartial_format_field(
                        convert_field(got.obj, conversion).obj,
                        missing).calls)

\* one replacement field {field} of a format string
format_replacement_field(field, kwargs, missing) ==
    format_got_field(Partial_get_field(FieldName(field), kwargs),
                     FieldConversion(field), missing)

RECURSIVE vformat(_, _, _, _, _)
RECURSIVE vformat_field(_, _, _, _, _, _)
\* the replacement field that ends at the character j has given out: an
\* exception ends the expansion, a text is appended to the text done
vformat_field(format_string, j, kwargs, missing, done, out) ==
    IF out.exc # ""
    THEN [done EXCEPT !.exc = out.exc, !.calls = @ \o out.calls]
    ELSE vformat(format_string, j + 1, kwargs, missing,
                 [done EXCEPT !.text = @ \o out.text,
                              !.calls = @ \o out.calls])

\* the least index from i on of a brace in format_string, 0 if there is none
NextBrace(format_string, i) ==
    IF \E j \in i..Len(format_string) :
            SubSeq(format_string, j, j) \in {"{", "}"}
    THEN CHOOSE j \in i..Len(format_string) :
            /\ SubSeq(format_string, j, j) \in {"{", "}"}
            /\ \A k \in i..(j - 1) :
                    SubSeq(format_string, k, k) \notin {"{", "}"}
    ELSE 0

\* string.Formatter.vformat from the character i of format_string on, with
\* the text and the calls done so far in done; format strings here have no
\* format specifications and no attribute or index parts.  The literal
\* text up to the next brace is taken as it is; {{ and }} are the braces
\* themselves.
vformat(format_string, i, kwargs, missing, done) ==
    CASE i > Len(format_string) -> done
      [] i <= Len(format_string) /\ NextBrace(format_string, i) = 0 ->
            [done EXCEPT !.text =
                @ \o SubSeq(format_string, i, Len(format_string))]
      [] i <= Len(format_string) /\ NextBrace(format_string, i) > i ->
            vformat(format_string, NextBrace(format_string, i), kwargs,
                    missing,
                    [done EXCEPT !.text =
                        @ \o SubSeq(format_string, i,
                                    NextBrace(format_string, i) - 1)])
      [] i < Len(format_string) /\ NextBrace(format_string, i) = i
            /\ SubSeq(format_string, i, i + 1) \in {"{{", "}}"} ->
            vformat(format_string, i + 2, kwargs, missing,
                    [done EXCEPT !.text = @ \o SubSeq(format_string, i, i)])
      [] OTHER ->
            IF SubSeq(format_string, i, i) = "}"
                \/ FindChar(format_string, "}", i + 1) = 0
            THEN [done EXCEPT !.exc = "ValueError"]
            ELSE vformat_field(
                    format_string, FindChar(format_string, "}", i + 1),
                    kwargs, missing, done,
                    format_replacement_field(
                        SubSeq(format_string, i + 1,
                               FindChar(format_string, "}", i + 1) - 1),
                        kwargs, missing))

\* the format arguments all called before the expansion
format_eager(format_string, kwargs, missing) ==
    vformat(format_string, 1, kwargs, missing,
            Expanded("", FNone, "",
                     CHOOSE ids \in ListsOf({kwargs[key].s :
                                key \in {k \in DOMAIN kwargs :
                                            kwargs[k].t = "lazy"}}) : TRUE))

\* _LazyPartialStringFormatter(missing=missing).format(format_string,
\* **kwargs)
format_(format_string, kwargs, missing) ==
    vformat(format_string, 1, kwargs, missing, Expanded("", FNone, "", <<>>))

-----------------------------------------------------------------------------
(* formatter.py: template expansion: state machine *)

MaxSegments == 3

MaxExpansions == 2

\* the pieces of the format strings: text, references to the fields x and
\* y, an escaped brace pair, a reference with a conversion and a reference
\* to a positional argument
TemplateSegments == {"a", "{x}", "{y}", "{{x}}", "{x!s}", "{0}"}

TemplateSegmentLists ==
    UNION {[1..n -> TemplateSegments] : n \in 0..MaxSegments}

\* the values of the fields x and y: undefined, a string, None, and
\* functions that return a string, None or another function
FieldValues ==
    [x : {<<>>, <<FStr("v")>>, <<FNone>>, <<FLazy("x", FStr("L"))>>,
          <<FLazy("x", FNone)>>,
          <<FLazy("x", FLazy("inner", FStr("I")))>>},
     y : {<<>>, <<FLazy("y", FStr("M"))>>}]

\* the keyword arguments of the expansion
TemplateKwargs(a) ==
    [key \in {k \in {"x", "y"} : a.values[k] # <<>>} |-> a.values[key][1]]

\* _PartialStringFormatter.__init__(missing=""), and the formatter
\* KorpExportFormatter._formatter with missing="[none]"
Placeholders == {"", "[none]"}

InitTemplate ==
    /\ TokensIdle
    /\ ContentIdle
    /\ FormatterIdle
    /\ ExporterIdle
    /\ py3 = TRUE
    /\ args \in [segments : TemplateSegmentLists, values : FieldValues,
                 missing : Placeholders]
    /\ returned = NotCalled

\* _format_item: self._formatter.format(template, **format_args); the
\* outcomes of the expansions so far are kept in order
FormatItem ==
    /\ Len(returned.val) < MaxExpansions
    /\ returned' = Ok(Append(returned.val,
                             format_(Join(args.segments, ""),
                                     TemplateKwargs(args), args.missing)))
    /\ UNCHANGED <<py3, tokVars, contentVars, fmtVars, expVars, args>>

NextTemplate == FormatItem

SpecTemplate == InitTemplate /\ [][NextTemplate]_vars

\* the number of references to the field name in the format string
References(name) ==
    Cardinality({i \in 1..Len(args.segments) :
                    args.segments[i] \in {"{" \o name \o "}",
                                          "{" \o name \o "!s}"}})

\* the number of calls of the function id in an expansion
Invocations(expansion, id) ==
    Cardinality({i \in 1..Len(expansion.calls) : expansion.calls[i] = id})

LazyFields ==
    {name \in DOMAIN TemplateKwargs(args) :
        TemplateKwargs(args)[name].t = "lazy"}

\* C17: in one template expansion, a lazy field value is invoked once for
\* each reference to the field in the template, and never when the template
\* does not reference the field.
C17_LazyInvokedPerReference ==
    \A k \in 1..Len(returned.val) : \A name \in LazyFields :
        /\ returned.val[k].exc = "" =>
            Invocations(returned.val[k], name) = References(name)
        /\ References(name) = 0 => Invocations(returned.val[k], name) = 0

\* an expansion that references the lazy field x twice and the lazy field y
\* not at all
C17_Witness ==
    /\ Len(returned.val) > 0
    /\ returned.val[1].exc = ""
    /\ LazyFields = {"x", "y"}
    /\ References("x") = 2
    /\ References("y") = 0
    /\ Invocations(returned.val[1], "x") = 2
    /\ Invocations(returned.val[1], "y") = 0

\* the references to fields that are undefined or null
UndefinedReferenced ==
    \E i \in 1..Len(args.segments) :
        \/ /\ args.segments[i] \in {"{x}", "{x!s}"}
           /\ args.values.x \in {<<>>, <<FNone>>}
        \/ args.segments[i] = "{y}" /\ args.values.y = <<>>
        \/ args.segments[i] = "{0}"

\* the text of a segment where undefined and null fields give the
\* placeholder
SegmentText(segment) ==
    CASE segment = "a" -> "a"
      [] segment = "{{x}}" -> "{x}"
      [] segment = "{0}" -> args.missing
      [] segment = "{y}" ->
            IF args.values.y = <<>> THEN args.missing
            ELSE str_(args.values.y[1].r[1])
      [] OTHER ->
            IF args.values.x \in {<<>>, <<FNone>>} THEN args.missing
            ELSE format_(segment, TemplateKwargs(args), args.missing).text

\* C18: expanding a template that references an undefined field, or a field
\* whose value is null, never raises and puts the configured placeholder
\* (by default the empty string) at that reference; a second expansion of
\* the same template with the same fields gives the same output.
C18_MissingFieldPlaceholder ==
    UndefinedReferenced =>
        \A k \in 1..Len(returned.val) :
            /\ returned.val[k].exc = ""
            /\ returned.val[k].text =
                Join([i \in 1..Len(args.segments) |->
                        SegmentText(args.segments[i])], "")
            /\ returned.val[k].text = returned.val[1].text

-----------------------------------------------------------------------------
(* queryresult.py: the structures that open and close at a token *)

MaxMarkers == 3

\* s.partition(sep) for a single character sep
partition(s, sep) ==
    IF FindChar(s, sep, 1) = 0 THEN <<s, "", "">>
    ELSE <<SubSeq(s, 1, FindChar(s, sep, 1) - 1), sep,
           SubSeq(s, FindChar(s, sep, 1) + 1, Len(s))>>

\* the element name, the attribute name and the attribute value that the
\* loop body of _combine_struct_attrs takes from a marker; has_val is
\* attrval is not None
struct_parts(struct, struct_type) ==
    [struct |->
        partition(IF struct_type = "open" THEN partition(struct, " ")[1]
                  ELSE struct, "_")[1],
     attrname |->
        partition(IF struct_type = "open" THEN partition(struct, " ")[1]
                  ELSE struct, "_")[3],
     has_val |-> struct_type = "open" /\ partition(struct, " ")[2] # "",
     attrval |-> IF struct_type = "open" THEN partition(struct, " ")[3]
                 ELSE ""]

\* one turn of a loop that puts the marker to the first entry of its
\* element, wherever that entry is
combine_struct_any(result_structs, p) ==
    IF \A i \in 1..Len(result_structs) : result_structs[i][1] # p.struct
    THEN Append(result_structs,
                <<p.struct,
                  IF p.has_val THEN <<<<p.attrname, p.attrval>>>>
                  ELSE <<>>>>)
    ELSE IF p.has_val
    THEN [result_structs EXCEPT
            ![CHOOSE i \in 1..Len(result_structs) :
                /\ result_structs[i][1] = p.struct
                /\ \A j \in 1..(i - 1) : result_structs[j][1] # p.struct][2] =
            Append(@, <<p.attrname, p.attrval>>)]
    ELSE result_structs

\* one turn of the loop of _combine_struct_attrs for the marker with the
\* parts p
combine_struct(result_structs, p) ==
    IF Len(result_structs) = 0
            \/ result_structs[Len(result_structs)][1] # p.struct
    THEN Append(result_structs,
                <<p.struct,
                  IF p.has_val THEN <<<<p.attrname, p.attrval>>>>
                  ELSE <<>>>>)
    ELSE IF p.has_val
    THEN [result_structs EXCEPT ![Len(result_structs)][2] =
            Append(@, <<p.attrname, p.attrval>>)]
    ELSE result_structs

RECURSIVE combine_struct_attrs_from(_, _, _, _)
\* the loop of _combine_struct_attrs from the marker i on
combine_struct_attrs_from(structs, struct_type, i, result_structs) ==
    IF i > Len(structs) THEN result_structs
    ELSE combine_struct_attrs_from(
            structs, struct_type, i + 1,
            combine_struct(result_structs,
                           struct_parts(structs[i], struct_type)))

\* _combine_struct_attrs(structs, struct_type)
combine_struct_attrs(structs, struct_type) ==
    combine_struct_attrs_from(structs, struct_type, 1, <<>>)

\* _get_token_structs(token, struct_type, combine_attrs): token["structs"]
\* is given by the struct types it has (keys) and their marker lists
get_token_structs(token, struct_type, combine_attrs) ==
    IF ~token.has_structs \/ struct_type \notin DOMAIN token.structs
    THEN <<>>
    ELSE IF combine_attrs
    THEN combine_struct_attrs(token.structs[struct_type], struct_type)
    ELSE token.structs[struct_type]

get_token_structs_open(token, combine_attrs) ==
    get_token_structs(token, "open", combine_attrs)

get_token_structs_close(token, combine_attrs) ==
    get_token_structs(token, "close", combine_attrs)

\* the markers: CWB structural attributes, for opening structures with a
\* value
StructMarkers ==
    {"s_id 42", "s_type prose", "s", "s_id", "p_n 1", "text_title a_b c"}

StructMarkerLists == UNION {[1..n -> StructMarkers] : n \in 0..MaxMarkers}

\* the tokens: without structs, with structs that lack the list asked
\* for, and with the list
StructTokens(struct_type) ==
    {[has_structs |-> FALSE, structs |-> <<>>],
     [has_structs |-> TRUE, structs |-> <<>>]}
    \cup {[has_structs |-> TRUE,
           structs |-> SetKey(<<>>, struct_type, markers)] :
            markers \in StructMarkerLists}

InitTokenStructs ==
    /\ TokensIdle
    /\ ContentIdle
    /\ FormatterIdle
    /\ ExporterIdle
    /\ py3 = TRUE
    /\ \E struct_type \in {"open", "close"} :
        args \in [struct_type : {struct_type},
                  token : StructTokens(struct_type),
                  combine_attrs : BOOLEAN]
    /\ returned = NotCalled

GetTokenStructsOpen ==
    /\ returned.exc = "not called"
    /\ args.struct_type = "open"
    /\ returned' = Ok(get_token_structs_open(args.token, args.combine_attrs))
    /\ UNCHANGED <<py3, tokVars, contentVars, fmtVars, expVars, args>>

GetTokenStructsClose ==
    /\ returned.exc = "not called"
    /\ args.struct_type = "close"
    /\ returned' = Ok(get_token_structs_close(args.token, args.combine_attrs))
    /\ UNCHANGED <<py3, tokVars, contentVars, fmtVars, expVars, args>>

NextTokenStructs == GetTokenStructsOpen \/ GetTokenStructsClose

SpecTokenStructs == InitTokenStructs /\ [][NextTokenStructs]_vars

\* the stored markers of the call
StoredMarkers ==
    IF args.token.has_structs /\ args.struct_type \in DOMAIN args.token.structs
    THEN args.token.structs[args.struct_type] ELSE <<>>

\* the element name of a stored marker: what precedes the first underscore
\* of the name
MarkerElement(i) ==
    LET name == IF args.struct_type = "open"
                THEN SubSeq(StoredMarkers[i], 1,
                            (IF FindChar(StoredMarkers[i], " ", 1) = 0
                             THEN Len(StoredMarkers[i]) + 1
                             ELSE FindChar(StoredMarkers[i], " ", 1)) - 1)
                ELSE StoredMarkers[i]
    IN  SubSeq(name, 1,
               (IF FindChar(name, "_", 1) = 0 THEN Len(name) + 1
                ELSE FindChar(name, "_", 1)) - 1)

\* the markers at which a maximal run of adjacent markers of one element
\* begins, and the k-th of them
RunStarts ==
    {i \in 1..Len(StoredMarkers) :
        i = 1 \/ MarkerElement(i) # MarkerElement(i - 1)}

RunStart(k) ==
    CHOOSE i \in RunStarts : Cardinality({j \in RunStarts : j <= i}) = k

RunEnd(k) ==
    IF k = Cardinality(RunStarts) THEN Len(StoredMarkers)
    ELSE RunStart(k + 1) - 1

\* the (attrName, attrValue) pairs of the markers of the k-th run that
\* carry a value, in order
RunAttributes(k) ==
    LET valued == SelectSeq(
            SubSeq(StoredMarkers, RunStart(k), RunEnd(k)),
            LAMBDA marker : FindChar(marker, " ", 1) # 0)
    IN  [n \in 1..Len(valued) |->
            <<LET name == SubSeq(valued[n], 1,
                                 FindChar(valued[n], " ", 1) - 1)
              IN  IF FindChar(name, "_", 1) = 0 THEN ""
                  ELSE SubSeq(name, FindChar(name, "_", 1) + 1, Len(name)),
              SubSeq(valued[n], FindChar(valued[n], " ", 1) + 1,
                     Len(valued[n]))>>]

-----------------------------------------------------------------------------
(* format/delimited.py: quoting the fields of the content *)

MaxTextLen == 4

\* KorpExportFormatterDelimited._quote_field without the replacement of the
\* quotes within the text
quote_field_as_is(text, opts) ==
    opts["quote"].s \o text \o opts["quote"].s

\* KorpExportFormatterDelimited._quote_field
quote_field(text, opts) ==
    opts["quote"].s
        \o ReplaceAll(text, opts["quote"].s, opts["replace_quote"].s)
        \o opts["quote"].s

\* KorpExportFormatterDelimited._quote_line
quote_line(line, opts) ==
    IF line = "" THEN line
    ELSE Join([i \in 1..Len(Split(line, "\t")) |->
                    quote_field(Split(line, "\t")[i], opts)],
              opts["delimiter"].s)

\* self._postprocess(text) of a formatter of the class mro: that of
\* KorpExportFormatterDelimited where the class inherits it, else that of
\* KorpExportFormatter
postprocess(text, mro, opts) ==
    IF "KorpExportFormatterDelimited" \in Range(mro)
    THEN IF opts["quote"].s # ""
         THEN Join([k \in 1..Len(Split(text, "\n")) |->
                        quote_line(Split(text, "\n")[k], opts)],
                   "\n")
         ELSE text
    ELSE text

\* the characters of the text to post-process, and the texts
TextChars == {"a", "\"", "\t", "\n", ","}

RECURSIVE TextsOf(_)
TextsOf(n) ==
    IF n = 0 THEN {""}
    ELSE {""} \cup {c \o t : c \in TextChars, t \in TextsOf(n - 1)}

PostprocessFormats == {"csv", "sentences,csv", "tokens,csv", "tsv", "text"}

InitPostprocess ==
    /\ TokensIdle
    /\ ContentIdle
    /\ FormatterIdle
    /\ ExporterIdle
    /\ py3 = TRUE
    /\ args \in [format : PostprocessFormats, text : TextsOf(MaxTextLen)]
    /\ returned = NotCalled

\* formatter._postprocess(text) of the formatter made for the format
Postprocess ==
    /\ returned.exc = "not called"
    /\ \E cls \in {get_formatter_class(args.format, TRUE)} :
        /\ cls.exc = ""
        /\ returned' =
            Ok(postprocess(args.text, cls.mro,
                           KorpExportFormatter_init(cls.mro, <<>>, <<>>)))
    /\ UNCHANGED <<py3, tokVars, contentVars, fmtVars, expVars, args>>

NextPostprocess == Postprocess

SpecPostprocess == InitPostprocess /\ [][NextPostprocess]_vars

\* a field wrapped in double quotes, with every double quote inside it
\* doubled
QuotedField(field) ==
    "\"" \o Join([i \in 1..Len(field) |->
                    IF SubSeq(field, i, i) = "\"" THEN "\"\""
                    ELSE SubSeq(field, i, i)], "")
         \o "\""

RECURSIVE CsvRead(_, _, _, _, _)
\* the fields that a reader of comma-separated values with double quotes
\* as the quote character takes from a line, from the character i on;
\* mode is "start" at the start of a field, "plain" within a field without
\* quotes, "quoted" within the quotes of a field and "quote" after a quote
\* within them; the fields are <<"unterminated">> \o fields where the line
\* ends within the quotes of a field
CsvRead(line, i, mode, field, fields) ==
    IF i > Len(line)
    THEN CASE mode = "quoted" -> <<"unterminated">> \o fields
           [] mode = "start" /\ Len(line) = 0 -> fields
           [] OTHER -> Append(fields, field)
    ELSE LET c == SubSeq(line, i, i)
         IN  CASE mode = "start" /\ c = "\"" ->
                    CsvRead(line, i + 1, "quoted", "", fields)
               [] mode \in {"start", "plain", "quote"} /\ c = "," ->
                    CsvRead(line, i + 1, "start", "", Append(fields, field))
               [] mode \in {"start", "plain"} /\ c # "," ->
                    CsvRead(line, i + 1, "plain", field \o c, fields)
               [] mode = "quoted" /\ c = "\"" ->
                    CsvRead(line, i + 1, "quote", field, fields)
               [] mode = "quoted" /\ c # "\"" ->
                    CsvRead(line, i + 1, "quoted", field \o c, fields)
               [] mode = "quote" /\ c = "\"" ->
                    CsvRead(line, i + 1, "quoted", field \o c, fields)
               [] OTHER ->
                    CsvRead(line, i + 1, "plain", field \o c, fields)

\* C19: CSV post-processing turns every non-empty line of tab-separated
\* fields f1..fn into the n fields each wrapped in double quotes, with every
\* double quote inside a field doubled, joined by commas; reading the
\* produced line back by the CSV quoting rules gives exactly f1..fn; empty
\* lines stay empty.
C19_CsvQuotedLines ==
    (returned.exc # "not called"
        /\ args.format \in {"csv", "sentences,csv", "tokens,csv"}) =>
        /\ returned.exc = ""
        /\ Len(Split(returned.val, "\n")) = Len(Split(args.text, "\n"))
        /\ \A k \in 1..Len(Split(args.text, "\n")) :
            LET line == Split(args.text, "\n")[k]
                produced == Split(returned.val, "\n")[k]
                fields == Split(line, "\t")
            IN  IF line = "" THEN produced = ""
                ELSE /\ produced =
                        Join([i \in 1..Len(fields) |-> QuotedField(fields[i])],
                             ",")
                     /\ CsvRead(produced, 1, "start", "", <<>>) = fields

\* a line of two fields, one of them with a double quote and one with a
\* comma, has been post-processed for CSV
C19_Witness ==
    /\ returned.exc = ""
    /\ args.format = "csv"
    /\ args.text = "\"a\t,"
    /\ returned.val = "\"\"\"a\",\",\""

-----------------------------------------------------------------------------
(* formatter.py: rendering the sentences of a query result *)

MaxWords == 3

RECURSIVE digits_of(_)
\* str(n) for an int n >= 0
digits_of(n) ==
    IF n < 10 THEN SubSeq("0123456789", n + 1, n + 1)
    ELSE digits_of(n \div 10) \o SubSeq("0123456789", (n % 10) + 1, (n % 10) + 1)

\* str(n) for an int n, as the format of an int value gives it
int_str(n) == IF n < 0 THEN "-" \o digits_of(0 - n) ELSE digits_of(n)

\* KorpExportFormatter.get_option_bool
get_option_bool(opts, optname) ==
    Lower(IF optname \in DOMAIN opts THEN opts[optname].s ELSE "")
        \notin {"false", "no", "off", "0", ""}

\* (value) as a condition, for an option value
Truthy(value) ==
    CASE value.t = "str" -> value.s # ""
      [] value.t = "list" -> Len(value.l) > 0
      [] OTHER -> TRUE

\* KorpExportFormatter._format_item: the outcome of the expansion.  The
\* keyword arguments are made before the call of self._formatter.format.
format_item(item_type, format_args, opts) ==
    CHOOSE expanded \in
        {format_(opts[item_type \o "_format"].s, kwargs, "[none]") :
            kwargs \in {format_args}} : TRUE

\* the class attribute structured_format
structured_format(mro) == "KorpExportFormatterVRT" \in Range(mro)

\* _format_token: format_name for a token formatted with its wordform
token_format_name(mro, opts) ==
    IF \/ "attrs" \in DOMAIN opts /\ Truthy(opts["attrs"])
       \/ structured_format(mro)
       \/ Len(ItemsOf(opts["token_fields"])) > 1
    THEN "token" ELSE "token_noattrs"

\* _format_token for a token without attributes and structures of its own,
\* formatted with its wordform: marks is what format_token gives for the
\* token.  The format keys are word, attrs, structs_open and structs_close
\* (functions) and the three match strings; the key fields is left out.
format_token_text(marks, mro, opts) ==
    format_item(
        token_format_name(mro, opts),
        [word |-> FLazy("word",
                        FStr(format_item("word",
                                         [word |-> FStr(marks.token["word"])],
                                         opts).text)),
         attrs |-> FLazy("attrs", FStr("")),
         structs_open |-> FLazy("structs_open", FStr("")),
         structs_close |-> FLazy("structs_close", FStr("")),
         match_open |-> FStr(marks.match_open),
         match_close |-> FStr(marks.match_close),
         match_marker |-> FStr(marks.match_marker)],
        opts).text

\* _format_tokens: _format_list("token", tokens) for the tokens that
\* format_tokens has given their match strings
format_tokens_text(marked, mro, opts) ==
    Join([i \in 1..Len(marked) |-> format_token_text(marked[i], mro, opts)],
         opts["token_sep"].s)

\* the match options as format_token reads them
match_opts(opts) ==
    [match_open |-> opts["match_open"].s,
     match_close |-> opts["match_close"].s,
     match_marker |-> opts["match_marker"].s]

\* _format_aligned_sentence for (align_key, tokens)
format_aligned_sentence(aligned_sentence, mro, opts) ==
    format_item(
        "aligned",
        [align_key |-> FStr(aligned_sentence[1]),
         sentence |->
            FLazy("sentence",
                  FStr(format_tokens_text(
                        format_tokens(aligned_sentence[2], NoMatchArgs,
                                      match_opts(opts)),
                        mro, opts)))],
        opts).text

\* _format_aligned_sentences: sent.aligned is sorted by the align key
format_aligned_sentences(sent, mro, opts) ==
    Join([i \in 1..Len(sent.aligned) |->
            format_aligned_sentence(sent.aligned[i], mro, opts)],
         opts["aligned_sep"].s)

\* _format_struct for (name, value)
format_struct(struct, opts) ==
    format_item("struct",
                [name |-> FStr(struct[1]), value |-> FStr(struct[2])],
                opts).text

\* self._get_sentence_structs(sentence): the structs listed in the option
\* structs
opts_sentence_structs(sent, opts) ==
    get_sentence_structs(
        sent,
        [isNone |-> FALSE,
         l |-> IF "structs" \in DOMAIN opts THEN ItemsOf(opts["structs"])
               ELSE <<>>])

\* _format_list("struct", structs)
format_struct_list(structs, opts) ==
    Join([i \in 1..Len(structs) |-> format_struct(structs[i], opts)],
         opts["struct_sep"].s)

\* _format_structs
format_structs(sent, opts) ==
    format_struct_list(opts_sentence_structs(sent, opts), opts)

\* _get_formatted_sentence_structs: a function for each struct of the
\* sentence; a None value is formatted as None
formatted_sentence_structs(sent, opts) ==
    LET all == get_sentence_structs(sent, [isNone |-> TRUE, l |-> <<>>])
    IN  [key \in {all[i][1] : i \in 1..Len(all)} |->
            FLazy(key,
                  FStr(format_item(
                        "struct",
                        [name |-> FStr(key),
                         value |-> IF ItemGet(sent.structs, key).isNone
                                   THEN FNone
                                   ELSE FStr(ItemGet(sent.structs, key).s)],
                        opts).text))]

\* _get_corpus_info for a sentence without corpus_info: each item but the
\* name of the corpus is empty
get_corpus_info(sent) ==
    [corpus_name |-> FStr(sent.corpus), urn |-> FStr(""), link |-> FStr(""),
     licence_name |-> FStr(""), licence_link |-> FStr(""),
     metadata_link |-> FStr("")]

\* format_args.update(dict(self._get_sentence_structs(sentence))): the
\* unformatted values of the structs listed in the option structs
sentence_struct_args(sent, structs) ==
    [i \in {structs[k][1] : k \in 1..Len(structs)} |->
        FStr(OrEmpty(ItemGet(sent.structs, i)))]

\* _format_sentence: format_args before the keys info and fields are
\* added; tokens_text is the four token lists formatted, in the order of
\* TokensTypes.  The call has no query parameters, so that hit_num counts
\* from 0.  The keys struct, corpus_info_field, arg, corpus_info and those
\* of self._infoitems are left out.
sentence_format_args(sent, sentence_num, tokens_text, mro, opts) ==
    get_corpus_info(sent)
    @@ sentence_struct_args(sent, opts_sentence_structs(sent, opts))
    @@ [sentence_num |-> FStr(int_str(sentence_num)),
        corpus |-> FStr(sent.corpus),
        match_pos |-> FStr(int_str(get_sentence_match_info(sent, "position"))),
        match_open |-> FStr(opts["match_open"].s),
        match_close |-> FStr(opts["match_close"].s),
        aligned |-> FLazy("aligned",
                          FStr(format_aligned_sentences(sent, mro, opts))),
        structs |-> FLazy("structs", FStr(format_structs(sent, opts))),
        hit_num |-> FLazy("hit_num", FStr(int_str(0 + sentence_num))),
        tokens |-> FLazy("tokens", FStr(tokens_text[1])),
        match |-> FLazy("match", FStr(tokens_text[2])),
        left_context |-> FLazy("left_context", FStr(tokens_text[3])),
        right_context |-> FLazy("right_context", FStr(tokens_text[4]))]

\* _format_sentence_field with _format_label_list_item: value is the format
\* argument of the key or, where there is none, the formatted struct of
\* that name or the empty string
format_sentence_field(key, sentence_field_num, format_args, structs, labels, opts) ==
    LET value == IF key \in DOMAIN format_args THEN format_args[key]
                 ELSE IF key \in DOMAIN structs THEN structs[key]
                 ELSE FStr("")
    IN  format_item(
            "sentence_field",
            [key |-> FStr(key),
             label |-> FLazy("label", FStr(LabelGet(labels, key, key))),
             value |-> value,
             sp_or_nl |->
                FLazy("sp_or_nl",
                      FStr(IF Contains(str_(value), "\n") THEN "\n" ELSE " ")),
             sentence_field_num |-> FStr(int_str(sentence_field_num))]
            @@ format_args,
            opts).text

\* _format_list("sentence_field", self._opts.get("sentence_fields", []))
format_sentence_fields(format_args, structs, labels, opts) ==
    Join([i \in 1..Len(ItemsOf(opts["sentence_fields"])) |->
            format_sentence_field(ItemsOf(opts["sentence_fields"])[i], i - 1,
                                  format_args, structs, labels, opts)],
         opts["sentence_field_sep"].s)

\* the text an expansion has made, or the exception it has raised
expansion_outcome(expanded) ==
    IF expanded.exc # "" THEN Raise(expanded.exc) ELSE Ok(expanded.text)

\* _format_sentence, once format_args has the key info: the key fields is
\* added and the sentence format is expanded
format_sentence_item(format_args, structs, labels, opts) ==
    format_item(
        "sentence",
        [fields |-> FLazy("fields",
                          FStr(format_sentence_fields(format_args, structs,
                                                      labels, opts)))]
        @@ format_args,
        opts)

\* format_args.update(dict(info=lambda: self._format_item("sentence_info",
\* **format_args)))
with_sentence_info(format_args, opts) ==
    [info |-> FLazy("info",
                    FStr(format_item("sentence_info", format_args, opts).text))]
    @@ format_args

\* the four token lists of a sentence formatted, in the order of
\* TokensTypes
format_token_lists(marked_lists, mro, opts) ==
    [i \in 1..4 |-> format_tokens_text(marked_lists[i], mro, opts)]

\* _format_sentence after the loop over tokens_type_info, which has
\* fetched the token lists and given them their match strings: format_args
\* is made before the key info is added and the sentence format is expanded
format_sentence_fetched(fetched, sent, sentence_num, labels, mro, opts) ==
    IF fetched.exc # "" THEN Raise(fetched.exc)
    ELSE CHOOSE outcome \in
            {expansion_outcome(
                format_sentence_item(
                    with_sentence_info(format_args, opts),
                    formatted_sentence_structs(sent, opts), labels, opts)) :
             format_args \in
                {sentence_format_args(
                    sent, sentence_num,
                    format_token_lists(fetched.val, mro, opts), mro, opts)}} :
            TRUE

\* _format_sentence: the token lists are fetched and given their match
\* strings first (format_sentence_tokens); a failing fetch ends the call
format_sentence_text(sent, sentence_num, labels, mro, opts) ==
    format_sentence_fetched(format_sentence_tokens(sent, match_opts(opts)),
                            sent, sentence_num, labels, mro, opts)

\* _format_list("sentence", ...) of the sentences formatted each: the
\* first sentence that has failed ends the call
join_sentences(each, sentence_sep) ==
    IF \E i \in 1..Len(each) : each[i].exc # ""
    THEN Raise(each[CHOOSE i \in 1..Len(each) :
                        /\ each[i].exc # ""
                        /\ \A j \in 1..(i - 1) : each[j].exc = ""].exc)
    ELSE Ok(Join([i \in 1..Len(each) |-> each[i].val], sentence_sep))

\* _format_sentences: _format_list("sentence", kwic)
format_sentences_text(kwic, labels, mro, opts) ==
    join_sentences([i \in 1..Len(kwic) |->
                        format_sentence_text(kwic[i], i - 1, labels, mro, opts)],
                   opts["sentence_sep"].s)

\* the format string refers to the field
RefersTo(format_string, field) ==
    \E i \in 1..Len(format_string) :
        /\ i + Len(field) + 1 <= Len(format_string)
        /\ SubSeq(format_string, i, i + Len(field) + 1)
            = "{" \o field \o "}"

\* _format_content where the options show_info and show_field_headings are
\* false, so that _format_infoitems and _format_field_headings return the
\* empty string; sentences is what _format_sentences gives when the
\* expansion of the content format comes to the field sentences
format_content_with(sentences, opts) ==
    IF RefersTo(opts["content_format"].s, "sentences") /\ sentences.exc # ""
    THEN Raise(sentences.exc)
    ELSE expansion_outcome(
            format_item(
                "content",
                [info |-> FLazy("info", FStr("")),
                 sentences |->
                    FLazy("sentences",
                          FStr(IF sentences.exc = "" THEN sentences.val
                               ELSE "")),
                 sentence_field_headings |->
                    FLazy("sentence_field_headings", FStr("")),
                 token_field_headings |->
                    FLazy("token_field_headings", FStr(""))],
                opts))

\* KorpExportFormatter._convert_newlines
convert_newlines(text, opts) ==
    IF opts["newline"].s # "\n" THEN ReplaceAll(text, "\n", opts["newline"].s)
    ELSE text

\* self._convert_newlines(self._postprocess(content)) for the content that
\* _format_content has returned; an exception of _format_content ends the
\* call
content_processed(content, mro, opts) ==
    IF content.exc # "" THEN content
    ELSE Ok(convert_newlines(postprocess(content.val, mro, opts), opts))

-----------------------------------------------------------------------------
(* formatter.py: rendering the sentences: state machine *)

\* the wordforms of the tokens of a sentence
RenderWords == <<"The", "cat", "sat">>

RenderTokens(n) ==
    [i \in 1..n |-> [word |-> RenderWords[((i - 1) % Len(RenderWords)) + 1]]]

\* the sentences: of the corpus news, of up to MaxWords tokens, without a
\* match or with a match within the tokens at the corpus position 100,
\* with or without an aligned sentence, with or without structs
RenderSentences ==
    {[corpus |-> "news", corpus_info |-> <<>>, tokens |-> RenderTokens(n),
      hasMatch |-> m.hasMatch, match |-> m.match, aligned |-> al,
      has_structs |-> st.has_structs, structs |-> st.structs] :
        n \in 0..MaxWords,
        m \in {[hasMatch |-> FALSE,
                match |-> [start |-> 0, end |-> 0, position |-> 0]]}
              \cup {[hasMatch |-> TRUE,
                     match |-> [start |-> s, end |-> e, position |-> 100]] :
                        s \in 0..MaxWords, e \in 0..MaxWords},
        al \in {<<>>, <<<<"fi", <<[word |-> "Kissa"]>>>>>>},
        st \in {[has_structs |-> FALSE, structs |-> <<>>],
                [has_structs |-> TRUE,
                 structs |-> <<<<"sentence_id", StrValue("s1")>>>>]}}

\* the formats requested
RenderFormats == {"csv", "sentences,csv", "sentences,tsv", "text"}

\* the options of the call: the info items and the field headings are
\* switched off; the sentence fields and the structs are given or not
RenderOptions ==
    {[show_info |-> Str("false"), show_field_headings |-> Str("false")]
        @@ fields @@ structs :
        fields \in {<<>>,
                    [sentence_fields |->
                        Str("corpus,match_pos,left_context,match,right_context")],
                    [sentence_fields |->
                        Str("match,match_pos,aligned,structs")]},
        structs \in {<<>>, [structs |-> List(<<"sentence_id">>)]}}

InitRender ==
    /\ TokensIdle
    /\ ContentIdle
    /\ FormatterIdle
    /\ ExporterIdle
    /\ py3 \in BOOLEAN
    /\ args \in [format : RenderFormats, options : RenderOptions,
                 kwic : {<<>>} \cup {<<sent>> :
                            sent \in {s \in RenderSentences : ValidSentence(s)}}]
    /\ returned = NotCalled

\* formatter.make_download_content(query_result, options=options) of the
\* formatter made for the format: the options are updated and adjusted,
\* the sentences and the content are formatted, and the content is
\* post-processed and given its newlines
RenderDownloadContent ==
    /\ returned.exc = "not called"
    /\ \E cls \in {get_formatter_class(args.format, TRUE)} :
        /\ cls.exc = ""
        /\ \E adjusted \in
                {adjust_opts(cls.mro,
                             Update(KorpExportFormatter_init(cls.mro, <<>>, <<>>),
                                    args.options),
                             args.kwic)} :
            \E sentences \in
                {format_sentences_text(args.kwic,
                                       sentence_field_labels_default,
                                       cls.mro, adjusted)} :
                \E content \in {format_content_with(sentences, adjusted)} :
                    returned' = content_processed(content, cls.mro, adjusted)
    /\ UNCHANGED <<py3, tokVars, contentVars, fmtVars, expVars, args>>

NextRender == RenderDownloadContent

SpecRender == InitRender /\ [][NextRender]_vars

\* the first line of the content made, and its fields as the format
\* separates them
RenderedRow ==
    SubSeq(returned.val, 1,
           (CHOOSE i \in 1..(Len(returned.val) + 1) :
                /\ i <= Len(returned.val)
                        => SubSeq(returned.val, i, i) \in {"\r", "\n"}
                /\ \A j \in 1..(i - 1) :
                        SubSeq(returned.val, j, j) \notin {"\r", "\n"}) - 1)

RenderedFields ==
    IF args.format = "sentences,csv"
    THEN CsvRead(RenderedRow, 1, "start", "", <<>>)
    ELSE Split(RenderedRow, "\t")

\* the sentence fields the options of the call list
RequestedFields == Split(args.options["sentence_fields"].s, ",")

\* the result is one sentence without a match, without aligned sentences
\* and without structural attributes, rendered a sentence per row with the
\* sentence fields listed in the options
NoOptionalData ==
    /\ returned.exc # "not called"
    /\ args.format \in {"sentences,csv", "sentences,tsv"}
    /\ "sentence_fields" \in DOMAIN args.options
    /\ Len(args.kwic) = 1
    /\ ~args.kwic[1].hasMatch
    /\ args.kwic[1].aligned = <<>>
    /\ ~args.kwic[1].has_structs

\* C15: for a sentence with no match, no aligned sentences and no
\* structural attributes, each of the sentence fields match, match_pos,
\* aligned and structs renders as the empty string, and rendering the
\* sentence raises no error.
C15_MissingDataRendersEmpty ==
    NoOptionalData =>
        /\ returned.exc = ""
        /\ Len(RenderedFields) = Len(RequestedFields)
        /\ \A i \in 1..Len(RequestedFields) :
            RequestedFields[i] \in {"match", "match_pos", "aligned", "structs"}
                => RenderedFields[i] = ""

\* C20: for a result with one sentence (corpus news, tokens The, cat, sat,
\* match {start: 1, end: 2, position: 100}), the requested format csv and
\* the sentence field list corpus,match_pos,left_context,match,right_context,
\* the sentence is rendered as the row "news","100","The","cat","sat"
\* followed by CRLF.
C20_CsvSentenceRow ==
    (/\ returned.exc # "not called"
     /\ args.format = "csv"
     /\ "sentence_fields" \in DOMAIN args.options
     /\ args.options["sentence_fields"].s
            = "corpus,match_pos,left_context,match,right_context"
     /\ Len(args.kwic) = 1
     /\ args.kwic[1].corpus = "news"
     /\ args.kwic[1].tokens
            = <<[word |-> "The"], [word |-> "cat"], [word |-> "sat"]>>
     /\ args.kwic[1].hasMatch
     /\ args.kwic[1].match = [start |-> 1, end |-> 2, position |-> 100]) =>
        /\ returned.exc = ""
        /\ StartsWith(returned.val,
                      "\"news\",\"100\",\"The\",\"cat\",\"sat\"\r\n")

-----------------------------------------------------------------------------
(* exporter.py: the corpus info of the sentences *)

\* A value decoded from JSON: null, a string, an int, a list, or an object.
\* An object is a dict, whose items are kept in the order of insertion: a
\* sequence of items with distinct keys.
JNull == [t |-> "null", s |-> "", n |-> 0, d |-> <<>>]

JStr(s) == [t |-> "str", s |-> s, n |-> 0, d |-> <<>>]

JInt(n) == [t |-> "int", s |-> "", n |-> n, d |-> <<>>]

JList(l) == [t |-> "list", s |-> "", n |-> 0, d |-> l]

JObj(items) == [t |-> "obj", s |-> "", n |-> 0, d |-> items]

Item(key, value) == [k |-> key, v |-> value]

\* key in d, d.get(key) and d[key] = value for the items d of a dict
Has(d, key) == \E i \in 1..Len(d) : d[i].k = key

Get(d, key) ==
    IF Has(d, key) THEN d[CHOOSE i \in 1..Len(d) : d[i].k = key].v
    ELSE JNull

Put(d, key, value) ==
    IF Has(d, key)
    THEN [i \in 1..Len(d) |-> IF d[i].k = key THEN Item(key, value) ELSE d[i]]
    ELSE Append(d, Item(key, value))

\* s.partition(sep)[0] and s.partition(sep)[2] for a separator of one
\* character
PartitionHead(s, sep) ==
    IF FirstAt(s, sep) = 0 THEN s ELSE SubSeq(s, 1, FirstAt(s, sep) - 1)

PartitionTail(s, sep) ==
    IF FirstAt(s, sep) = 0 THEN ""
    ELSE SubSeq(s, FirstAt(s, sep) + 1, Len(s))

\* subinfo[subinfoname] = infovalue for the value subinfo of an info item:
\* a str does not support item assignment
set_subinfo(corpus_info, corpname, info, infoname, subinfoname, infovalue) ==
    IF Get(info, infoname).t # "obj" THEN Raise("TypeError")
    ELSE Ok(Put(corpus_info, corpname,
                JObj(Put(info, infoname,
                         JObj(Put(Get(info, infoname).d, subinfoname,
                                  infovalue))))))

\* _add_corpus_info_item once the name is split, for the info of the corpus
\* that setdefault has returned: an item that the info has already is kept
add_split_info_item(corpus_info, corpname, info, infoname, subinfoname, infovalue) ==
    IF info.t # "obj" THEN Raise("TypeError")
    ELSE IF subinfoname = ""
    THEN Ok(Put(corpus_info, corpname,
                IF Has(info.d, infoname) THEN info
                ELSE JObj(Put(info.d, infoname, infovalue))))
    ELSE set_subinfo(corpus_info, corpname,
                     IF Has(info.d, infoname) THEN info.d
                     ELSE Put(info.d, infoname, JObj(<<>>)),
                     infoname, subinfoname, infovalue)

\* KorpExporter._add_corpus_info_item(corpname, infoname, infovalue) for
\* self._corpus_info = corpus_info: the table afterwards, or the exception
add_corpus_info_item(corpus_info, corpname, infoname, infovalue) ==
    add_split_info_item(
        corpus_info, corpname,
        IF Has(corpus_info, corpname) THEN Get(corpus_info, corpname)
        ELSE JObj(<<>>),
        PartitionHead(Lower(infoname), "_"),
        PartitionTail(Lower(infoname), "_"),
        infovalue)

RECURSIVE add_corpus_info_items(_, _, _)
\* _add_corpus_info_item for each of the info items of a corpus in turn;
\* an exception ends the loop
add_corpus_info_items(corpus_info, corpname, items) ==
    IF Len(items) = 0 THEN Ok(corpus_info)
    ELSE IF add_corpus_info_item(corpus_info, corpname, items[1].k,
                                 items[1].v).exc # ""
    THEN Raise("TypeError")
    ELSE add_corpus_info_items(
            add_corpus_info_item(corpus_info, corpname, items[1].k,
                                 items[1].v).val,
            corpname, Tail(items))

RECURSIVE add_corpora_info(_, _)
\* the info items of each corpus of corpora (items of corpus name and info
\* items) are added in turn
add_corpora_info(corpus_info, corpora) ==
    IF Len(corpora) = 0 THEN Ok(corpus_info)
    ELSE IF add_corpus_info_items(corpus_info, Lower(corpora[1].k),
                                  corpora[1].v).exc # ""
    THEN Raise("TypeError")
    ELSE add_corpora_info(
            add_corpus_info_items(corpus_info, Lower(corpora[1].k),
                                  corpora[1].v).val,
            Tail(corpora))

RECURSIVE prefixed_items(_, _)
\* the items of a dict with prefix before each key
prefixed_items(prefix, items) ==
    IF Len(items) = 0 THEN <<>>
    ELSE <<Item(prefix \o items[1].k, items[1].v)>>
            \o prefixed_items(prefix, Tail(items))

RECURSIVE config_info_items(_, _)
\* the info items that _add_corpus_info_from_config adds for the items
\* config of the configuration of a corpus: those of the keys urn, url,
\* *_urn and *_url, and the subitems of the keys listed in the form field
\* corpus_config_info_keys (whose values are dicts)
config_info_items(config, listed_keys) ==
    IF Len(config) = 0 THEN <<>>
    ELSE (IF \/ Lower(config[1].k) \in {"urn", "url"}
             \/ EndsWith(Lower(config[1].k), "_urn")
             \/ EndsWith(Lower(config[1].k), "_url")
          THEN <<Item(Lower(config[1].k), config[1].v)>>
          ELSE IF Lower(config[1].k) \in Range(listed_keys)
          THEN prefixed_items(Lower(config[1].k) \o "_", config[1].v.d)
          ELSE <<>>)
         \o config_info_items(Tail(config), listed_keys)

RECURSIVE config_corpora_info(_, _)
\* for each corpus of the configuration, its name and the info items that
\* _add_corpus_info_from_config adds for it
config_corpora_info(corpus_config, listed_keys) ==
    IF Len(corpus_config) = 0 THEN <<>>
    ELSE <<Item(corpus_config[1].k,
                config_info_items(corpus_config[1].v.d, listed_keys))>>
            \o config_corpora_info(Tail(corpus_config), listed_keys)

RECURSIVE info_of_config(_)
\* dict([(corpname.lower(), config.get("info")) for corpname, config in
\* self._corpus_config.items()])
info_of_config(corpus_config) ==
    IF Len(corpus_config) = 0 THEN <<>>
    ELSE Put(info_of_config(SubSeq(corpus_config, 1, Len(corpus_config) - 1)),
             Lower(corpus_config[Len(corpus_config)].k),
             Get(corpus_config[Len(corpus_config)].v.d, "info"))

\* the part of KorpExporter._retrieve_corpus_info that reads the form:
\* self._corpus_info, or the exception.  The form field corpus_info is
\* preferred to the field corpus_config.
corpus_info_of_form(form) ==
    IF "corpus_info" \in DOMAIN form THEN Ok(form["corpus_info"])
    ELSE IF "corpus_config" \in DOMAIN form
    THEN add_corpora_info(
            info_of_config(form["corpus_config"]),
            config_corpora_info(
                form["corpus_config"],
                IF "corpus_config_info_keys" \in DOMAIN form
                THEN Split(form["corpus_config_info_keys"], ",")
                ELSE <<>>))
    ELSE Ok(<<>>)

\* self._corpus_config after _retrieve_corpus_info
corpus_config_of_form(form) ==
    IF "corpus_info" \notin DOMAIN form /\ "corpus_config" \in DOMAIN form
    THEN form["corpus_config"]
    ELSE <<>>

\* KorpExporter._get_corpus_names: the names of the corpora of the
\* sentences, those of all the aligned corpora of a parallel corpus
get_corpus_names(kwic) ==
    UNION {Range(Split(Get(kwic[i], "corpus").s, "|")) : i \in 1..Len(kwic)}

\* the info items of the corpora named in the answer of the Korp server to
\* the command info, as _retrieve_corpus_info_from_server adds them
server_corpora_info(korp_corpus_info) ==
    [i \in 1..Len(korp_corpus_info) |->
        Item(korp_corpus_info[i].k, Get(korp_corpus_info[i].v.d, "info").d)]

\* KorpExporter._retrieve_corpus_info_from_server for the sentences kwic:
\* no query is made for a result without sentences.  answer is what
\* _query_korp_server does: it raises, or returns the corpora of the answer.
retrieve_corpus_info_from_server(corpus_info, kwic, answer) ==
    IF get_corpus_names(kwic) = {} THEN Ok(corpus_info)
    ELSE IF answer.exc # "" THEN Raise(answer.exc)
    ELSE add_corpora_info(corpus_info, server_corpora_info(answer.val))

\* KorpExporter._retrieve_corpus_info: self._corpus_info, or the exception
retrieve_corpus_info(form, kwic, answer) ==
    IF corpus_info_of_form(form).exc # "" THEN Raise("TypeError")
    ELSE retrieve_corpus_info_from_server(corpus_info_of_form(form).val,
                                          kwic, answer)

\* self._corpus_config[corpname] when the sentences get their corpus info:
\* the info of the configuration of a corpus is the very dict that
\* self._corpus_info holds for the corpus, with the items added to it
config_of_corpus(corpus_config, corpus_info, corpname) ==
    IF Get(Get(corpus_config, corpname).d, "info").t = "obj"
    THEN JObj(Put(Get(corpus_config, corpname).d, "info",
                  Get(corpus_info, Lower(corpname))))
    ELSE Get(corpus_config, corpname)

\* the body of the loop of _add_corpus_info for the sentence query_hit
with_corpus_info(query_hit, corpus_info, corpus_config, corpname) ==
    IF Len(corpus_config) = 0
    THEN Put(query_hit, "corpus_info", Get(corpus_info, corpname))
    ELSE Put(Put(query_hit, "corpus_info", Get(corpus_info, corpname)),
             "corpus_config",
             config_of_corpus(corpus_config, corpus_info, corpname))

\* the corpus name under which _add_corpus_info looks up a sentence
info_corpus_name(query_hit) ==
    Lower(PartitionHead(Get(query_hit, "corpus").s, "|"))

\* the loop of KorpExporter._add_corpus_info: the sentences with their
\* corpus_info and corpus_config, or KeyError for a sentence of a corpus
\* that a configuration that is not empty lacks
with_corpora_info(kwic, corpus_info, corpus_config) ==
    IF \E i \in 1..Len(kwic) :
            /\ Len(corpus_config) > 0
            /\ ~Has(corpus_config, info_corpus_name(kwic[i]))
    THEN Raise("KeyError")
    ELSE Ok([i \in 1..Len(kwic) |->
                with_corpus_info(kwic[i], corpus_info, corpus_config,
                                 info_corpus_name(kwic[i]))])

\* KorpExporter._add_corpus_info(korp_server_url, query_result) for the
\* sentences kwic of the query result: the sentences afterwards, or the
\* exception
add_corpus_info(form, kwic, answer) ==
    IF retrieve_corpus_info(form, kwic, answer).exc # ""
    THEN Raise(retrieve_corpus_info(form, kwic, answer).exc)
    ELSE with_corpora_info(kwic, retrieve_corpus_info(form, kwic, answer).val,
                           corpus_config_of_form(form))

-----------------------------------------------------------------------------
(* format/json.py: the JSON format *)

\* the characters of the keys, in the order of their code points
CodePoints ==
    "0123456789ABCDEFGHIJKLMNOPQRSTUVWXYZ_abcdefghijklmnopqrstuvwxyz"

CodePoint(c) == FirstAt(CodePoints, c)

RECURSIVE StrLess(_, _)
\* a < b for strings
StrLess(a, b) ==
    IF Len(b) = 0 THEN FALSE
    ELSE IF Len(a) = 0 THEN TRUE
    ELSE IF SubSeq(a, 1, 1) = SubSeq(b, 1, 1)
    THEN StrLess(SubSeq(a, 2, Len(a)), SubSeq(b, 2, Len(b)))
    ELSE CodePoint(SubSeq(a, 1, 1)) < CodePoint(SubSeq(b, 1, 1))

RECURSIVE sorted_items(_)
\* sorted(dct.items()) for the items of a dict
sorted_items(items) ==
    IF Len(items) <= 1 THEN items
    ELSE LET least == CHOOSE i \in 1..Len(items) :
                        \A j \in 1..Len(items) :
                            j # i => StrLess(items[i].k, items[j].k)
         IN  <<items[least]>>
                \o sorted_items(SubSeq(items, 1, least - 1)
                                \o SubSeq(items, least + 1, Len(items)))

\* the JSON string literal of s
json_string(s) ==
    "\"" \o ReplaceAll(ReplaceAll(ReplaceAll(s, "\\", "\\\\"), "\"", "\\\""),
                       "\n", "\\n")
         \o "\""

RECURSIVE Spaces(_)
Spaces(n) == IF n <= 0 THEN "" ELSE " " \o Spaces(n - 1)

\* the line break and the indentation before an item at a nesting level,
\* nothing where indent is None
newline_indent(indent, level) ==
    IF indent.isNone THEN "" ELSE "\n" \o Spaces(indent.v * level)

\* the item separator of json.dumps: with an indent, Python 3 separates
\* items with "," and Python 2 with ", "
item_separator(indent) == IF indent.isNone \/ ~py3 THEN ", " ELSE ","

RECURSIVE json_encode(_, _, _, _)
\* json.dumps(value, sort_keys=sort_keys, indent=indent) for a value at a
\* nesting level
json_encode(value, sort_keys, indent, level) ==
    CASE value.t = "null" -> "null"
      [] value.t = "str" -> json_string(value.s)
      [] value.t = "int" -> int_str(value.n)
      [] value.t = "list" ->
            IF Len(value.d) = 0 THEN "[]"
            ELSE "[" \o newline_indent(indent, level + 1)
                 \o Join([i \in 1..Len(value.d) |->
                            json_encode(value.d[i], sort_keys, indent,
                                        level + 1)],
                         item_separator(indent)
                            \o newline_indent(indent, level + 1))
                 \o newline_indent(indent, level) \o "]"
      [] OTHER ->
            IF Len(value.d) = 0 THEN "{}"
            ELSE "{" \o newline_indent(indent, level + 1)
                 \o Join([i \in 1..Len(value.d) |->
                            json_string((IF sort_keys
                                         THEN sorted_items(value.d)
                                         ELSE value.d)[i].k)
                            \o ": "
                            \o json_encode((IF sort_keys
                                            THEN sorted_items(value.d)
                                            ELSE value.d)[i].v,
                                           sort_keys, indent, level + 1)],
                         item_separator(indent)
                            \o newline_indent(indent, level + 1))
                 \o newline_indent(indent, level) \o "}"

json_dumps(value, sort_keys, indent) == json_encode(value, sort_keys, indent, 0)

\* KorpExportFormatterJSON._option_defaults
json_option_defaults == [sort_keys |-> Str("True"), indent |-> Str("4")]

\* the options of KorpExportFormatterJSON as _extract_options gives them:
\* each is overridden by the form field of the same name
json_options(form) ==
    [opt_name \in DOMAIN json_option_defaults |->
        IF opt_name \in DOMAIN form THEN Str(form[opt_name])
        ELSE json_option_defaults[opt_name]]

\* self.get_option_int("indent") of a KorpExportFormatterJSON
json_indent(opts) ==
    IF int_of_option(opts, "indent").exc = ""
    THEN IntVal(int_of_option(opts, "indent").val)
    ELSE IF int_of_option(json_option_defaults, "indent").exc = ""
    THEN IntVal(int_of_option(json_option_defaults, "indent").val)
    ELSE NoneVal

\* the list of the sentences as a JSON value
sentence_list(kwic) == JList([i \in 1..Len(kwic) |-> JObj(kwic[i])])

\* KorpExportFormatterJSON._format_content for the sentences kwic of the
\* query result
format_content_json(kwic, opts) ==
    json_dumps(sentence_list(kwic), get_option_bool(opts, "sort_keys"),
               json_indent(opts))
        \o "\n"

\* what _query_korp_server does when it is asked for the info of the
\* corpora: Python 3 raises before the query is sent; Python 2 sends it and
\* returns the answer of the server
query_corpus_info(url_or_progname, answer) ==
    IF py3 THEN {Raise(exc) : exc \in query_korp_server(url_or_progname)}
    ELSE {Ok(answer)}

\* the sentences of the results of the backend: the keys of the second are
\* not in alphabetical order, and its corpus is a parallel one
JsonSentences ==
    <<<<Item("corpus", JStr("C")),
        Item("tokens", JList(<<JObj(<<Item("word", JStr("w\"1"))>>)>>))>>,
      <<Item("tokens", JList(<<>>)),
        Item("match", JObj(<<Item("start", JInt(0)), Item("end", JInt(1))>>)),
        Item("corpus", JStr("C|D"))>>>>

JsonResults ==
    {<<>>, <<JsonSentences[1]>>, <<JsonSentences[2]>>, JsonSentences}

\* a form field, or none for the value none
FormField(name, value) ==
    IF value = "none" THEN <<>> ELSE SetKey(<<>>, name, value)

\* the forms of the exports: the options of the JSON format, a template
\* option, and the corpus info
JsonForms ==
    {FormField("sort_keys", sort_keys) @@ FormField("indent", indent)
        @@ FormField("content_format", content_format) @@ corpus_info :
        sort_keys \in {"none", "false", "yes"},
        indent \in {"none", "0", "2", "x"},
        content_format \in {"none", "{sentences}"},
        corpus_info \in
            {<<>>,
             [corpus_info |->
                <<Item("c", JObj(<<Item("urn", JStr("urn:c"))>>))>>]}}

\* the corpora of the answers of the Korp server to the command info
JsonAnswers ==
    {<<>>,
     <<Item("C", JObj(<<Item("info", JObj(<<Item("Size", JStr("1"))>>))>>))>>}

InitJson ==
    /\ TokensIdle
    /\ ContentIdle
    /\ FormatterIdle
    /\ ExporterIdle
    /\ py3 \in BOOLEAN
    /\ args \in [form : JsonForms, kwic : JsonResults,
                 korp_server_url : KorpServers, answer : JsonAnswers]
    /\ returned = NotCalled

\* make_download_file(form, korp_server_url) for a form whose format is
\* json and whose query_result has the sentences kwic: the corpus info is
\* added to the sentences, and the formatter makes the content of them.
\* The list-valued options that the formatter adjusts are not used in the
\* JSON format.
ExportJson ==
    /\ returned.exc = "not called"
    /\ \E cls \in {get_formatter_class("json", TRUE)} :
        /\ cls.exc = ""
        /\ \E answer \in query_corpus_info(args.korp_server_url, args.answer) :
            \E added \in {add_corpus_info(args.form, args.kwic, answer)} :
                returned' =
                    IF added.exc # "" THEN Raise(added.exc)
                    ELSE Ok(convert_newlines(
                                format_content_json(added.val,
                                                    json_options(args.form)),
                                extract_options(
                                    args.form,
                                    KorpExportFormatter_init(cls.mro, <<>>, <<>>),
                                    args.korp_server_url)))
    /\ UNCHANGED <<py3, tokVars, contentVars, fmtVars, expVars, args>>

NextJson == ExportJson

SpecJson == InitJson /\ [][NextJson]_vars

\* C21: for the format json, an export ends with the content that is the
\* serialization of exactly the list of the sentences as the backend has
\* supplied it (no key added to or removed from a sentence), with the keys
\* sorted as the option sort_keys says and the indentation of the option
\* indent, whatever the template options are.
C21_JsonIsBackendSentences ==
    returned.exc # "not called" =>
        /\ returned.exc = ""
        /\ returned.val =
            json_dumps(sentence_list(args.kwic),
                       get_option_bool(json_options(args.form), "sort_keys"),
                       json_indent(json_options(args.form)))
                \o "\n"

-----------------------------------------------------------------------------
(* exporter.py: the corpus info of the form and of the server: state machine *)

\* a sentence of the corpus (or of the aligned corpora) corpus
InfoSentence(corpus) ==
    <<Item("corpus", JStr(corpus)), Item("tokens", JList(<<>>))>>

InfoResults ==
    {<<>>, <<InfoSentence("C")>>, <<InfoSentence("C|D")>>,
     <<InfoSentence("C"), InfoSentence("E")>>}

\* the forms: without corpus info, with the field corpus_info (a URN, a
\* licence with a name, a licence that is a string, a corpus without info),
\* and with the field corpus_config (with info and a URN of its own, with a
\* licence listed in corpus_config_info_keys, with a URN and no info)
InfoForms ==
    {<<>>}
    \cup {[corpus_info |-> <<Item("c", info)>>] :
            info \in {JObj(<<Item("urn", JStr("urn:form"))>>),
                      JObj(<<Item("licence",
                                  JObj(<<Item("name", JStr("form"))>>))>>),
                      JObj(<<Item("licence", JStr("CC"))>>),
                      JNull}}
    \cup {[corpus_config |-> <<Item("c", config)>>] :
            config \in {JObj(<<Item("info",
                                    JObj(<<Item("urn", JStr("urn:form"))>>)),
                               Item("title", JStr("Corpus"))>>),
                        JObj(<<Item("urn", JStr("urn:config"))>>)}}
    \cup {[corpus_config |->
                <<Item("c", JObj(<<Item("info", JObj(<<>>)),
                                   Item("licence",
                                        JObj(<<Item("name", JStr("form"))>>))
                                 >>))>>,
           corpus_config_info_keys |-> "licence"]}

\* the corpora of the answers of the Korp server to the command info: the
\* info of the corpus C has a URN, the name of a licence, or both
InfoAnswers ==
    {<<>>}
    \cup {<<Item("C", JObj(<<Item("info", JObj(info))>>))>> :
            info \in {<<Item("Urn", JStr("urn:server"))>>,
                      <<Item("Licence_name", JStr("server"))>>,
                      <<Item("Size", JStr("10")),
                        Item("Urn", JStr("urn:server")),
                        Item("Licence_name", JStr("server"))>>}}

InitCorpusInfo ==
    /\ TokensIdle
    /\ ContentIdle
    /\ FormatterIdle
    /\ ExporterIdle
    /\ py3 \in BOOLEAN
    /\ args \in [form : InfoForms, kwic : InfoResults,
                 korp_server_url : KorpServers, answer : InfoAnswers]
    /\ returned = NotCalled

\* exporter._add_corpus_info(korp_server_url, query_result) of an exporter
\* with the form, for a query result with the sentences kwic: the sentences
\* afterwards
AddCorpusInfo ==
    /\ returned.exc = "not called"
    /\ \E answer \in query_corpus_info(args.korp_server_url, args.answer) :
            returned' = add_corpus_info(args.form, args.kwic, answer)
    /\ UNCHANGED <<py3, tokVars, contentVars, fmtVars, expVars, args>>

NextCorpusInfo == AddCorpusInfo

SpecCorpusInfo == InitCorpusInfo /\ [][NextCorpusInfo]_vars

\* the value of the info item infoname in the info of a corpus, the
\* sub-item for a name with an underscore; null where there is none
info_item_value(info, infoname) ==
    IF info.t # "obj" THEN JNull
    ELSE IF PartitionTail(infoname, "_") = "" THEN Get(info.d, infoname)
    ELSE IF Get(info.d, PartitionHead(infoname, "_")).t # "obj" THEN JNull
    ELSE Get(Get(info.d, PartitionHead(infoname, "_")).d,
             PartitionTail(infoname, "_"))

\* the corpus info that the form supplies: the field corpus_info, or else
\* the info of each corpus of the field corpus_config with the items of the
\* configuration that count as info
FormCorpusInfo ==
    IF corpus_info_of_form(args.form).exc = ""
    THEN corpus_info_of_form(args.form).val
    ELSE <<>>

\* the Korp server has been asked for the info of the corpora and has
\* answered, or there was no corpus to ask about
ServerAnswered == ~py3 \/ get_corpus_names(args.kwic) = {}

\* the info items (corpus, name, value) of the answer of the server that
\* the form supplies as well, for the corpora of the sentences
SuppliedByBoth ==
    {[corpname |-> Lower(args.answer[c].k),
      infoname |-> Lower(Get(args.answer[c].v.d, "info").d[j].k),
      value |-> Get(args.answer[c].v.d, "info").d[j].v] :
        <<c, j>> \in
            {cj \in (1..Len(args.answer)) \X (1..3) :
                /\ cj[2] <= Len(Get(args.answer[cj[1]].v.d, "info").d)
                /\ info_item_value(
                        Get(FormCorpusInfo, Lower(args.answer[cj[1]].k)),
                        Lower(Get(args.answer[cj[1]].v.d, "info").d[cj[2]].k))
                    # JNull}}

\* C25: merging the corpus info of the form (corpus_info or corpus_config)
\* and that of the answer of the Korp server never raises, and for every
\* corpus and info item that both supply, top-level item or sub-item, the
\* corpus info attached to the sentences of the corpus holds the value of
\* the server.
C25_ServerInfoOverridesForm ==
    (returned.exc # "not called" /\ ServerAnswered) =>
        /\ returned.exc \in {"", "KeyError"}
        /\ returned.exc = "" =>
            \A i \in 1..Len(args.kwic), both \in SuppliedByBoth :
                both.corpname = info_corpus_name(args.kwic[i]) =>
                    info_item_value(Get(returned.val[i], "corpus_info"),
                                    both.infoname) = both.value

-----------------------------------------------------------------------------
(* queryresult.py: results from parallel corpora: state machine *)

\* the corpora of the sentences of a result: none, one or two sentences,
\* each of a plain corpus or of a parallel corpus
ParallelCorpora ==
    {<<>>} \cup {<<c>> : c \in InfoCorpora}
        \cup {<<c1, c2>> : c1 \in InfoCorpora, c2 \in InfoCorpora}

\* the query result (kwic) of a call: a sentence of one token for each
\* corpus, with the corpus info keys
ParallelResult(a) ==
    [i \in 1..Len(a.corpora) |->
        [corpus |-> a.corpora[i],
         corpus_info |-> [key \in a.keys |-> InfoStr],
         tokens |-> <<[word |-> "w"]>>]]

\* the field lists of the calls
ParallelFields ==
    {"?aligned", "corpus,?aligned,match", "?urn,?aligned", "corpus,match"}

\* the options of a text formatter with the list-valued option of the call
ParallelOpts(a) ==
    Update(KorpExportFormatter_init(get_formatter_class("text", TRUE).mro,
                                    <<>>, <<>>),
           SetKey(<<>>, a.optkey, Str(a.fields)))

InitParallel ==
    /\ TokensIdle
    /\ ContentIdle
    /\ FormatterIdle
    /\ ExporterIdle
    /\ py3 = TRUE
    /\ args \in [corpora : ParallelCorpora, keys : SUBSET InfoKeys,
                 optkey : {"sentence_fields", "token_fields"},
                 fields : ParallelFields]
    /\ returned = NotCalled

\* qr.is_parallel_corpus(query_result)
IsParallelCorpus ==
    /\ returned.exc = "not called"
    /\ returned' = Ok([op |-> "is_parallel_corpus",
                       parallel |-> is_parallel_corpus(ParallelResult(args)),
                       list |-> <<>>])
    /\ UNCHANGED <<py3, tokVars, contentVars, fmtVars, expVars, args>>

\* formatter._make_opt_lists() of a formatter with the query result: the
\* list that the option of the call has become
MakeOptLists ==
    /\ returned.exc = "not called"
    /\ returned' = Ok([op |-> "_make_opt_lists",
                       parallel |-> FALSE,
                       list |-> make_opt_lists(ParallelOpts(args),
                                               ParallelResult(args))
                                    [args.optkey].l])
    /\ UNCHANGED <<py3, tokVars, contentVars, fmtVars, expVars, args>>

NextParallel == IsParallelCorpus \/ MakeOptLists

SpecParallel == InitParallel /\ [][NextParallel]_vars

\* the result has a first sentence, whose corpus contains a vertical bar
FirstSentenceParallel ==
    /\ Len(args.corpora) > 0
    /\ \E i \in 1..Len(args.corpora[1]) : SubSeq(args.corpora[1], i, i) = "|"

-----------------------------------------------------------------------------
(* formatter.py: the structures opening at a token: state machine *)

\* the options of the structures of a token in the _option_defaults of
\* KorpExportFormatter and in those of KorpExportFormatterVRT
token_struct_option_defaults(cls) ==
    CASE cls = "KorpExportFormatter" ->
            [token_struct_open_format |-> Str(""),
             token_struct_close_format |-> Str(""),
             token_struct_open_sep |-> Str(""),
             token_struct_close_sep |-> Str(""),
             combine_token_structs |-> Str("False")]
      [] cls = "KorpExportFormatterVRT" ->
            [token_struct_open_noattrs_format |-> Str("<{name}>\n"),
             token_struct_open_attrs_format |-> Str("<{name} {attrs}>\n"),
             token_struct_close_format |-> Str("</{name}>\n"),
             token_struct_attr_format |-> Str("{name}=\"{value}\""),
             token_struct_attr_sep |-> Str(" "),
             combine_token_structs |-> Str("True")]
      [] OTHER -> <<>>

\* _format_token_struct_attr for the attribute (name, value)
format_token_struct_attr(attr, format_args, opts) ==
    format_item("token_struct_attr",
                [name |-> FStr(attr[1]), value |-> FStr(attr[2])]
                    @@ format_args,
                opts).text

\* _format_token_struct_attrs: _format_list("token_struct_attr", attrs)
format_token_struct_attrs(attrs, format_args, opts) ==
    Join([i \in 1..Len(attrs) |->
            format_token_struct_attr(
                attrs[i],
                [token_struct_attr_num |-> FStr(int_str(i - 1))]
                    @@ format_args,
                opts)],
         opts["token_struct_attr_sep"].s)

\* bool(attrstr) for the function attrstr: a function object is true
function_is_true == TRUE

\* _format_token_struct_open for a structure of the list that
\* get_token_structs_open has given: combined, a pair of the name and the
\* list of the attributes
format_token_struct_open(struct, format_args, opts) ==
    IF get_option_bool(opts, "combine_token_structs")
    THEN format_item(
            "token_struct_open_"
                \o (IF function_is_true THEN "attrs" ELSE "noattrs"),
            [name |-> FStr(struct[1]),
             attrs |-> FLazy("attrs",
                             FStr(format_token_struct_attrs(
                                    struct[2], format_args, opts)))]
                @@ format_args,
            opts).text
    ELSE format_item("token_struct_open",
                     [name |-> FStr(struct)] @@ format_args, opts).text

\* _format_token_structs_open: _format_list("token_struct_open", ...)
format_token_structs_open(token, opts) ==
    LET structs ==
            get_token_structs_open(
                token, get_option_bool(opts, "combine_token_structs"))
    IN  Join([i \in 1..Len(structs) |->
                format_token_struct_open(
                    structs[i],
                    [token_struct_open_num |-> FStr(int_str(i - 1))],
                    opts)],
             opts["token_struct_open_sep"].s)

\* the options of the calls: the formats of VRT or formats of the caller,
\* structures combined or not
TokenStructOptions ==
    {combine @@ templates :
        combine \in {<<>>, [combine_token_structs |-> Str("true")],
                     [combine_token_structs |-> Str("off")]},
        templates \in {<<>>,
                     [token_struct_open_noattrs_format |-> Str("[{name}]"),
                      token_struct_open_attrs_format |->
                            Str("[{name}: {attrs}]"),
                      token_struct_open_format |-> Str("({name})")]}}

\* self._opts of a VRT formatter made with the options
VrtStructOpts(options) ==
    Update(token_struct_option_defaults("KorpExportFormatterVRT")
                @@ token_struct_option_defaults("KorpExportFormatter"),
           options)

InitOpenStructs ==
    /\ TokensIdle
    /\ ContentIdle
    /\ FormatterIdle
    /\ ExporterIdle
    /\ py3 = TRUE
    /\ args \in [token : StructTokens("open"), options : TokenStructOptions]
    /\ returned = NotCalled

\* formatter._format_token_structs_open(token) of a VRT formatter
FormatTokenStructsOpen ==
    /\ returned.exc = "not called"
    /\ returned' = Ok(format_token_structs_open(args.token,
                                                VrtStructOpts(args.options)))
    /\ UNCHANGED <<py3, tokVars, contentVars, fmtVars, expVars, args>>

NextOpenStructs == FormatTokenStructsOpen

SpecOpenStructs == InitOpenStructs /\ [][NextOpenStructs]_vars

\* the structures that open before the token of the call, combined
OpeningStructs == get_token_structs_open(args.token, TRUE)

\* the rendering of a combined structure with the format of an item type
RenderedWith(item_type, struct) ==
    format_item(item_type,
                [name |-> FStr(struct[1]),
                 attrs |-> FStr(format_token_struct_attrs(
                                    struct[2], <<>>,
                                    VrtStructOpts(args.options)))],
                VrtStructOpts(args.options)).text

\* C23: with combine_token_structs true, each structure that opens before
\* a token is rendered with token_struct_open_attrs_format if it has at
\* least one attribute value and with token_struct_open_noattrs_format if it
\* has none (VRT renders an element s without attributes as the line <s>).
C23_OpenFormatByAttrs ==
    (/\ returned.exc # "not called"
     /\ get_option_bool(VrtStructOpts(args.options), "combine_token_structs"))
    => /\ returned.exc = ""
       /\ returned.val =
            Join([i \in 1..Len(OpeningStructs) |->
                    IF Len(OpeningStructs[i][2]) > 0
                    THEN RenderedWith("token_struct_open_attrs",
                                      OpeningStructs[i])
                    ELSE RenderedWith("token_struct_open_noattrs",
                                      OpeningStructs[i])],
                 VrtStructOpts(args.options)["token_struct_open_sep"].s)

-----------------------------------------------------------------------------
(* format/delimited.py: the delimiter of the fields: state machine *)

\* the options quote and delimiter of the calls; none leaves an option to
\* the default of the format
DelimiterOptions ==
    {FormField("quote", quote) @@ FormField("delimiter", delimiter) :
        quote \in {"none", "", "\"", "'"},
        delimiter \in {"none", "\t", ",", ";"}}

\* self._opts of a formatter of the class mro made with the options
DelimitedOpts(mro, options) ==
    KorpExportFormatter_init(
        mro, <<>>, [optname \in DOMAIN options |-> Str(options[optname])])

InitDelimiter ==
    /\ TokensIdle
    /\ ContentIdle
    /\ FormatterIdle
    /\ ExporterIdle
    /\ py3 = TRUE
    /\ args \in [format : {"csv", "tsv"}, options : DelimiterOptions,
                 text : TextsOf(MaxTextLen - 1)]
    /\ returned = NotCalled

\* formatter._postprocess(text) of the formatter made for the format with
\* the options
PostprocessDelimited ==
    /\ returned.exc = "not called"
    /\ \E cls \in {get_formatter_class(args.format, TRUE)} :
        /\ cls.exc = ""
        /\ returned' =
            Ok(postprocess(args.text, cls.mro,
                           DelimitedOpts(cls.mro, args.options)))
    /\ UNCHANGED <<py3, tokVars, contentVars, fmtVars, expVars, args>>

NextDelimiter == PostprocessDelimited

SpecDelimiter == InitDelimiter /\ [][NextDelimiter]_vars

\* the options in effect in the call
DelimiterOpts ==
    DelimitedOpts(get_formatter_class(args.format, TRUE).mro, args.options)

\* a field as a row holds it: within the quotes, if there is a quote
DelimitedField(field) ==
    IF DelimiterOpts["quote"].s = "" THEN field
    ELSE quote_field(field, DelimiterOpts)

\* a row of the intermediate text with its tabs replaced by the delimiter;
\* an empty row has no field
DelimitedRow(line) ==
    IF line = "" THEN ""
    ELSE Join([i \in 1..Len(Split(line, "\t")) |->
                    DelimitedField(Split(line, "\t")[i])],
              DelimiterOpts["delimiter"].s)

\* C24: after the post-processing of a delimited formatter, the fields of
\* every row are separated by the value of the option delimiter: every tab
\* that separates fields in the intermediate text is replaced by the
\* delimiter, for every combination of the options quote and delimiter.
C24_TabsBecomeDelimiters ==
    returned.exc # "not called" =>
        /\ returned.exc = ""
        /\ returned.val =
            Join([k \in 1..Len(Split(args.text, "\n")) |->
                    DelimitedRow(Split(args.text, "\n")[k])],
                 "\n")

-----------------------------------------------------------------------------
(* format/delimited.py: the match field of the token fields: state machine *)

TokenFormats == {"tokens", "tokens,csv", "tsv,tokens"}

MatchFieldValues == {"none", "", "0", "1", "last"}

TokenFieldsValues == {"none", "", "word", "word,*attrs", "match_mark,word"}

\* the options of a make_download_content call, as strings
TokenContentOptions ==
    {[optname \in {n \in {"match_field", "token_fields"} : a[n] # "none"}
        |-> Str(a[optname])] :
        a \in [match_field : MatchFieldValues,
               token_fields : TokenFieldsValues]}

TokenResults ==
    {<<>>,
     <<[corpus |-> "C", tokens |-> <<[word |-> "w", lemma |-> "l"]>>]>>}

\* the formatters of the token-per-line formats as _get_formatter makes
\* them for an exporter with the option attrs
TokenFormatters ==
    {get_formatter([format |-> f], [attrs |-> List(<<"lemma">>)], <<>>,
                   TRUE).formatter : f \in TokenFormats}

InitTokenFields ==
    /\ TokensIdle
    /\ ContentIdle
    /\ ExporterIdle
    /\ CallIdle
    /\ py3 = TRUE
    /\ format_importable = TRUE
    /\ sentence_field_labels = sentence_field_labels_default
    /\ formatter \in TokenFormatters
    /\ formatterOut = [exc |-> "", msg |-> ""]
    /\ made = 1

\* formatter.make_download_content(query_result, options=options) up to
\* the rendering of the content
AdjustTokenFields ==
    /\ Len(formatter.content_options) < MaxCalls
    /\ \E kwic \in TokenResults, options \in TokenContentOptions :
        \E made_ \in {make_download_content(formatter, sentence_field_labels,
                                            kwic, options)} :
            /\ formatter' = made_.formatter
            /\ sentence_field_labels' = made_.labels
    /\ UNCHANGED <<py3, tokVars, contentVars, format_importable,
                   formatterOut, made, expVars, callVars>>

NextTokenFields == AdjustTokenFields

SpecTokenFields == InitTokenFields /\ [][NextTokenFields]_vars

\* the token fields in effect after the last call
TokenFields == formatter.opts["token_fields"].l

\* the number of items match_mark of a list
MatchMarks(fields) ==
    Cardinality({i \in 1..Len(fields) : fields[i] = "match_mark"})

\* a caller listed match_mark in the option token_fields of a call
CallerListedMatchMark ==
    \E i \in 1..Len(formatter.content_options) :
        /\ "token_fields" \in DOMAIN formatter.content_options[i]
        /\ "match_mark" \in
                Range(Split(formatter.content_options[i]["token_fields"].s,
                            ","))

\* C26: in the token-per-line format, after the option adjustment of an
\* export the token field list has match_mark as its first item when the
\* option match_field is 0 and as its last item when match_field has
\* another non-empty value; where no caller listed match_mark, the list
\* has it exactly once for a non-empty match_field and not at all for an
\* empty one.
C26_MatchMarkAddedOnce ==
    formatter.content_options # <<>> =>
        LET match_field == formatter.opts["match_field"].s
        IN  /\ match_field = "0" =>
                TokenFields # <<>> /\ TokenFields[1] = "match_mark"
            /\ match_field \notin {"", "0"} =>
                TokenFields # <<>> /\ Last(TokenFields) = "match_mark"
            /\ ~CallerListedMatchMark =>
                MatchMarks(TokenFields) = IF match_field = "" THEN 0 ELSE 1

-----------------------------------------------------------------------------
(* format/delimited.py: the simplified sentence-per-line format *)

\* re.match("^(" + regexp + ")$", fieldname) for the regexp that
\* tokens_type_info_all gives with the tokens type
tokens_type_matches(tokens_type, fieldname) ==
    IF tokens_type = "tokens"
    THEN fieldname = "tokens" \/ EndsWith(fieldname, "_all")
    ELSE EndsWith(fieldname, "_" \o tokens_type)

\* KorpExportFormatterDelimitedSentenceSimple._format_sentences: the
\* tokens types of tokens_type_info
simple_tokens_types(sentence_fields) ==
    SelectSeq(TokensTypes,
              LAMBDA tokens_type :
                \E i \in 1..Len(sentence_fields) :
                    tokens_type_matches(tokens_type, sentence_fields[i]))

\* _format_sentences: match_format[opt_name]
simple_match_format(opts) ==
    [opt_name \in {"match_open", "match_close", "match_marker"} |->
        IF RefersTo(opts["token_format"].s, opt_name)
        THEN opts[opt_name].s ELSE ""]

\* _format_sentences: token_format once the references to the match
\* strings that are not in use are taken out; None where the tokens are
\* output as such
simple_token_format(opts) ==
    LET match_format == simple_match_format(opts)
        without(token_format, opt_name) ==
            IF match_format[opt_name] = ""
            THEN ReplaceAll(token_format, "{" \o opt_name \o "}", "")
            ELSE token_format
        token_format ==
            without(without(without(opts["token_format"].s, "match_open"),
                            "match_close"),
                    "match_marker")
        mark_matches == \E n \in DOMAIN match_format : match_format[n] # ""
    IN  [isNone |-> ~mark_matches /\ token_format = "{word}",
         s |-> token_format, mark_matches |-> mark_matches]

\* token.get(attrname) or ""
simple_token_attr(token, attrname) ==
    IF attrname \in DOMAIN token THEN token[attrname] ELSE ""

\* _format_sentence of the simplified format: token_str of the token with
\* the number token_num, where match_start and match_end are as the loop
\* over the tokens types has left them
simple_token_str(token, attrname, token_num, token_format, match_format, span) ==
    LET replaced(text, opt_name, here) ==
            IF match_format[opt_name] # ""
            THEN ReplaceAll(text, "{" \o opt_name \o "}",
                            IF here THEN match_format[opt_name] ELSE "")
            ELSE text
    IN  IF token_format.isNone THEN simple_token_attr(token, attrname)
        ELSE replaced(
                replaced(
                    replaced(ReplaceAll(token_format.s, "{word}",
                                        simple_token_attr(token, attrname)),
                             "match_open", token_num = span.match_start),
                    "match_close", token_num = span.match_end - 1),
                "match_marker",
                span.match_start <= token_num /\ token_num < span.match_end)

\* match_start and match_end after the tokens of tokens_type are fetched:
\* they are assigned for the types tokens and match only
simple_span(sent, tokens_type, tokens, mark_matches, span) ==
    IF mark_matches /\ tokens_type = "tokens"
    THEN [match_start |-> get_sentence_match_info(sent, "start"),
          match_end |-> get_sentence_match_info(sent, "end")]
    ELSE IF mark_matches /\ tokens_type = "match"
    THEN [match_start |-> 0, match_end |-> Len(tokens)]
    ELSE span

\* the name of the field of the attribute attrname for a tokens type
simple_field_name(attrname, tokens_type) ==
    IF attrname = "word" THEN tokens_type
    ELSE label_base_of(attrname) \o "_"
            \o (IF tokens_type # "tokens" THEN tokens_type ELSE "all")

\* the fields that the loop over token_attrs gives for one tokens type
simple_tokens_fields(tokens, tokens_type, token_attrs, token_format, match_format, span, opts) ==
    [field_name \in {simple_field_name(token_attrs[a], tokens_type) :
                        a \in 1..Len(token_attrs)} |->
        LET attrname == token_attrs[
                CHOOSE a \in 1..Len(token_attrs) :
                    /\ simple_field_name(token_attrs[a], tokens_type)
                            = field_name
                    /\ \A b \in (a + 1)..Len(token_attrs) :
                        simple_field_name(token_attrs[b], tokens_type)
                            # field_name]
        IN  FStr(Join([i \in 1..Len(tokens) |->
                        simple_token_str(tokens[i], attrname, i - 1,
                                         token_format, match_format, span)],
                      opts["token_sep"].s))]

RECURSIVE simple_token_lists(_, _, _, _, _, _, _, _, _)
\* _format_sentence of the simplified format, the loop over
\* tokens_type_info from its item i on: the fields of the tokens, or the
\* exception that fetching the tokens has raised
simple_token_lists(sent, tokens_types, i, token_attrs, token_format, match_format, span, field_vals, opts) ==
    IF i > Len(tokens_types) THEN Ok(field_vals)
    ELSE LET tokens == get_sentence_tokens(sent, KindOf(tokens_types[i]))
             new_span == simple_span(sent, tokens_types[i], tokens.val,
                                     token_format.mark_matches, span)
         IN  IF tokens.exc # "" THEN Raise(tokens.exc)
             ELSE simple_token_lists(
                    sent, tokens_types, i + 1, token_attrs, token_format,
                    match_format, new_span,
                    simple_tokens_fields(tokens.val, tokens_types[i],
                                         token_attrs, token_format,
                                         match_format, new_span, opts)
                        @@ field_vals,
                    opts)

\* field_vals before the loop over tokens_type_info.  The call has no
\* query parameters, so that hit_num counts from 0.
simple_field_vals(sent, sentence_num, match_format, mro, opts) ==
    [corpus |-> FStr(sent.corpus),
     match_pos |-> FStr(int_str(get_sentence_match_info(sent, "position"))),
     match_open |-> FStr(match_format["match_open"]),
     match_close |-> FStr(match_format["match_close"]),
     aligned |-> FLazy("aligned",
                       FStr(format_aligned_sentences(sent, mro, opts))),
     structs |-> FLazy("structs", FStr(format_structs(sent, opts))),
     sentence_num |-> FStr(int_str(sentence_num)),
     hit_num |-> FStr(int_str(0 + sentence_num))]

\* the end of _format_sentence of the simplified format: the fields listed
\* in sentence_fields, each called if it is a function, are joined.  A
\* listed field that field_vals does not have is a KeyError.  The keys of
\* self._infoitems and the keys corpus_info and info are left out.
simple_join_fields(field_vals, fieldnames, opts) ==
    IF \E i \in 1..Len(fieldnames) : fieldnames[i] \notin DOMAIN field_vals
    THEN Raise("KeyError")
    ELSE Ok(Join([i \in 1..Len(fieldnames) |->
                    IF field_vals[fieldnames[i]].t = "lazy"
                    THEN field_vals[fieldnames[i]].r[1].s
                    ELSE field_vals[fieldnames[i]].s],
                 opts["sentence_field_sep"].s))

\* KorpExportFormatterDelimitedSentenceSimple._format_sentence
simple_format_sentence(sent, sentence_num, token_attrs, mro, opts) ==
    LET match_format == simple_match_format(opts)
        token_lists ==
            simple_token_lists(
                sent, simple_tokens_types(ItemsOf(opts["sentence_fields"])),
                1, token_attrs, simple_token_format(opts), match_format,
                [match_start |-> -1, match_end |-> -1],
                simple_field_vals(sent, sentence_num, match_format, mro, opts),
                opts)
    IN  IF token_lists.exc # "" THEN token_lists
        ELSE simple_join_fields(
                get_corpus_info(sent)
                    @@ sentence_struct_args(sent,
                                            opts_sentence_structs(sent, opts))
                    @@ token_lists.val,
                ItemsOf(opts["sentence_fields"]), opts)

\* KorpExportFormatterDelimitedSentenceSimple._format_sentences:
\* any(match_format.itervalues()) is evaluated before any sentence is
\* formatted, and a dict of Python 3 has no itervalues
simple_format_sentences(kwic, mro, opts) ==
    IF py3 THEN Raise("AttributeError")
    ELSE join_sentences(
            [i \in 1..Len(kwic) |->
                simple_format_sentence(
                    kwic[i], i - 1,
                    <<"word">> \o ItemsOf(opts["sentence_token_attrs"]),
                    mro, opts)],
            opts["sentence_sep"].s)


-----------------------------------------------------------------------------
(* formatter.py: the sentence fields of the token attributes *)

\* _format_token for a token formatted with its attribute attr_only: the
\* format is token_attr_format and the key attr is the attribute formatted
\* by _format_token_attr with attr_only_format
format_token_attr_text(marks, attr_only, opts) ==
    format_item(
        "token_attr",
        [attr |->
            FLazy("attr",
                  FStr(format_item(
                        "attr_only",
                        [name |-> FStr(attr_only),
                         value |-> FStr(simple_token_attr(marks.token,
                                                          attr_only))],
                        opts).text)),
         attrs |-> FLazy("attrs", FStr("")),
         structs_open |-> FLazy("structs_open", FStr("")),
         structs_close |-> FLazy("structs_close", FStr("")),
         match_open |-> FStr(marks.match_open),
         match_close |-> FStr(marks.match_close),
         match_marker |-> FStr(marks.match_marker)],
        opts).text

\* self._format_tokens(tokens, attr_only=attrname, **opts)
format_tokens_attr_text(marked, attr_only, opts) ==
    Join([i \in 1..Len(marked) |->
            format_token_attr_text(marked[i], attr_only, opts)],
         opts["token_sep"].s)

\* _format_sentence: the format arguments of the attributes of
\* self._sentence_token_attrs, for the four token lists
sentence_attr_args(marked_lists, sentence_token_attrs, opts) ==
    [format_arg_name \in
        {simple_field_name(sentence_token_attrs[a], TokensTypes[i]) :
            a \in 1..Len(sentence_token_attrs), i \in 1..4} |->
        LET at == CHOOSE p \in (1..Len(sentence_token_attrs)) \X (1..4) :
                    simple_field_name(sentence_token_attrs[p[1]],
                                      TokensTypes[p[2]]) = format_arg_name
        IN  FLazy(format_arg_name,
                  FStr(format_tokens_attr_text(
                        marked_lists[at[2]], sentence_token_attrs[at[1]],
                        opts)))]

\* _format_sentence with the fields of the token attributes
format_sentence_attrs_text(sent, sentence_num, labels, mro, opts) ==
    LET fetched == format_sentence_tokens(sent, match_opts(opts))
    IN  IF fetched.exc # "" THEN Raise(fetched.exc)
        ELSE expansion_outcome(
                format_sentence_item(
                    with_sentence_info(
                        sentence_format_args(
                            sent, sentence_num,
                            format_token_lists(fetched.val, mro, opts),
                            mro, opts)
                        @@ sentence_attr_args(
                            fetched.val, ItemsOf(opts["sentence_token_attrs"]),
                            opts),
                        opts),
                    formatted_sentence_structs(sent, opts), labels, opts))

\* _format_sentences: _format_list("sentence", kwic)
format_sentences_attrs_text(kwic, labels, mro, opts) ==
    join_sentences(
        [i \in 1..Len(kwic) |->
            format_sentence_attrs_text(kwic[i], i - 1, labels, mro, opts)],
        opts["sentence_sep"].s)

-----------------------------------------------------------------------------
(* format/delimited.py: the two sentence-per-line formats: state machine *)

SimpleFieldLists ==
    {"corpus,tokens", "hit_num,tokens,match_pos",
     "corpus,match_pos,left_context,match,right_context",
     "tokens,lemmas_match,lemmas_left_context,left_context",
     "lemmas_match,lemmas_right_context,right_context"}

SimpleTokenFormats ==
    {"{word}", "{match_open}{word}{match_close}", "{match_marker}{word}"}

\* the options of the formatter: the token is formatted by the same format
\* with and without attributes; token_attr_format and attr_only_format
\* have the values of KorpExportFormatter._option_defaults
SimpleOptions ==
    {[sentence_fields |-> Str(a.sentence_fields),
      sentence_token_attrs |-> Str(a.sentence_token_attrs),
      token_format |-> Str(a.token_format),
      token_noattrs_format |-> Str(a.token_format),
      token_attr_format |-> Str("{match_open}{attr}{match_close}"),
      attr_only_format |-> Str("{value}"),
      match_open |-> Str(a.match_open),
      match_close |-> Str(a.match_close)] :
        a \in [sentence_fields : SimpleFieldLists,
               sentence_token_attrs : {"", "lemma"},
               token_format : SimpleTokenFormats,
               match_open : {"", "<"}, match_close : {"", ">"}]}

SimpleWords == <<"The", "cat", "sat">>

\* the sentences: of the corpus news, of up to MaxWords tokens with the
\* attribute lemma, without a match or with a match within the tokens
SimpleSentences ==
    {[corpus |-> "news", corpus_info |-> <<>>,
      tokens |-> [i \in 1..n |-> [word |-> SimpleWords[i], lemma |-> "l"]],
      hasMatch |-> m.hasMatch, match |-> m.match, aligned |-> <<>>,
      has_structs |-> FALSE, structs |-> <<>>] :
        n \in 0..MaxWords,
        m \in {[hasMatch |-> FALSE,
                match |-> [start |-> 0, end |-> 0, position |-> 0]]}
              \cup {[hasMatch |-> TRUE,
                     match |-> [start |-> s, end |-> e, position |-> 100]] :
                        s \in 0..MaxWords, e \in 0..MaxWords}}

InitSimple ==
    /\ TokensIdle
    /\ ContentIdle
    /\ FormatterIdle
    /\ ExporterIdle
    /\ py3 \in BOOLEAN
    /\ args \in [options : SimpleOptions,
                 kwic : {<<>>} \cup {<<sent>> :
                            sent \in {s \in SimpleSentences : ValidSentence(s)}}]
    /\ returned = NotCalled

\* self._opts of the formatter of the format when _format_sentences is
\* called in make_download_content
SimpleOpts(format_name) ==
    LET mro == get_formatter_class(format_name, TRUE).mro
    IN  adjust_opts(mro, KorpExportFormatter_init(mro, <<>>, args.options),
                    args.kwic)

\* formatter._format_sentences() in make_download_content of the formatter
\* of the format sentences_simple and of the formatter of the format
\* sentences, made with the same options for the same query result
FormatSentencesBoth ==
    /\ returned.exc = "not called"
    /\ returned' =
        Ok([simple |->
                simple_format_sentences(
                    args.kwic,
                    get_formatter_class("sentences_simple", TRUE).mro,
                    SimpleOpts("sentences_simple")),
            sentences |->
                format_sentences_attrs_text(
                    args.kwic, sentence_field_labels_default,
                    get_formatter_class("sentences", TRUE).mro,
                    SimpleOpts("sentences"))])
    /\ UNCHANGED <<py3, tokVars, contentVars, fmtVars, expVars, args>>

NextSimple == FormatSentencesBoth

SpecSimple == InitSimple /\ [][NextSimple]_vars

\* C27: for a query result and options that both classes support (the row
\* built from sentence_fields, a token format that refers to word,
\* match_open, match_close and match_marker only),
\* KorpExportFormatterDelimitedSentenceSimple renders every sentence to the
\* row that KorpExportFormatterDelimitedSentence renders it to, so that the
\* match strings are emitted for the tokens of the match span only.
C27_SimpleRendersSameRows ==
    returned.exc # "not called" =>
        returned.val.simple = returned.val.sentences

-----------------------------------------------------------------------------
(* format/delimited.py: the sentence fields of the subformats: state machine *)

SubformatLists ==
    {<<>>, <<"lemmas-resultinfo">>, <<"lemmas-kwic">>,
     <<"lemmas-resultinfo", "lemmas-kwic">>}

SubformatCorpora == {<<>>, <<"news">>, <<"fi|sv">>, <<"news", "fi|sv">>}

\* the attributes of the tokens of the result, the wordform apart
SubformatAttrs == {{}, {"lemma"}, {"searchword"}, {"lemma", "searchword"}}

SubformatResult(a) ==
    [i \in 1..Len(a.corpora) |->
        [corpus |-> a.corpora[i],
         corpus_info |-> [key \in a.keys |-> InfoStr],
         tokens |-> <<[attrname \in {"word"} \cup a.attrs |-> "w"]>>]]

InitSubformat ==
    /\ TokensIdle
    /\ ContentIdle
    /\ FormatterIdle
    /\ ExporterIdle
    /\ py3 = TRUE
    /\ args \in [subformat : SubformatLists, corpora : SubformatCorpora,
                 attrs : SubformatAttrs, keys : SUBSET {"urn"},
                 structs : {<<>>, <<"text_title">>}]
    /\ returned = NotCalled

\* self._opts of a formatter of the format sentences made with the
\* subformats and the option structs, after the _adjust_opts of
\* make_download_content for the query result
SubformatOpts(a) ==
    LET mro == get_formatter_class("sentences", TRUE).mro
    IN  adjust_opts(mro,
                    KorpExportFormatter_init(
                        mro, a.subformat, [structs |-> List(a.structs)]),
                    SubformatResult(a))

\* make_download_content up to _adjust_opts: the expanded sentence_fields
ExpandSentenceFields ==
    /\ returned.exc = "not called"
    /\ returned' = Ok(SubformatOpts(args)["sentence_fields"].l)
    /\ UNCHANGED <<py3, tokVars, contentVars, fmtVars, expVars, args>>

NextSubformat == ExpandSentenceFields

SpecSubformat == InitSubformat /\ [][NextSubformat]_vars

\* the keys of format_args that _format_sentence defines, and the names of
\* the structs listed in the option structs: the fields that
\* _format_sentence_field finds a value for
sentence_field_names(opts) ==
    {"corpus", "match_pos", "match_open", "match_close", "aligned",
     "structs", "struct", "corpus_info_field", "hit_num", "arg",
     "tokens", "match", "left_context", "right_context",
     "corpus_info", "info"}
    \cup {simple_field_name(ItemsOf(opts["sentence_token_attrs"])[a],
                            TokensTypes[i]) :
            a \in 1..Len(ItemsOf(opts["sentence_token_attrs"])), i \in 1..4}
    \cup Range(ItemsOf(opts["structs"]))
    \cup {"params", "param", "date", "hitcount", "sentence_field_headings",
          "token_field_headings", "title", "korp_url", "korp_server_url"}
    \cup {"corpus_name", "urn", "link", "licence_name", "licence_link",
          "metadata_link"}

\* C28: the expanded sentence_fields of the sentence-per-line format has
\* the field aligned if and only if the result is from a parallel corpus,
\* with the subformat lemmas-kwic (alone or after lemmas-resultinfo) as with
\* the default field list and with lemmas-resultinfo, and each of its items
\* is the name of a sentence field.
C28_SubformatFieldsDefined ==
    returned.exc # "not called" =>
        /\ ("aligned" \in Range(returned.val))
                = is_parallel_corpus(SubformatResult(args))
        /\ \A i \in 1..Len(returned.val) :
                returned.val[i] \in sentence_field_names(SubformatOpts(args))

-----------------------------------------------------------------------------
(* formatter.py: a formatter used for several exports: state machine *)

RepeatFormats == {"tokens", "tokens,csv", "sentences", "text"}

\* the options of the calls: the same in every call of a behaviour
RepeatOptions ==
    {<<>>,
     [token_fields |-> Str("word,*attrs")],
     [match_field |-> Str("")],
     [infoitems |-> Str("date,*params")],
     [sentence_fields |-> Str("corpus,?urn,*structs"),
      structs |-> List(<<"text_title">>)]}

\* the query results of the calls: the same in every call of a behaviour
RepeatResults ==
    {<<>>,
     <<[corpus |-> "C", corpus_info |-> <<>>,
        tokens |-> <<[word |-> "w", lemma |-> "l"]>>]>>,
     <<[corpus |-> "C", corpus_info |-> [urn |-> InfoStr],
        tokens |-> <<[word |-> "w"]>>]>>}

\* the formatters as _get_formatter makes them for an exporter without
\* options
RepeatFormatters ==
    {get_formatter([format |-> f], <<>>, <<>>, TRUE).formatter :
        f \in RepeatFormats}

InitRepeat ==
    /\ TokensIdle
    /\ ContentIdle
    /\ ExporterIdle
    /\ py3 = TRUE
    /\ format_importable = TRUE
    /\ sentence_field_labels = sentence_field_labels_default
    /\ formatter \in RepeatFormatters
    /\ formatterOut = [exc |-> "", msg |-> ""]
    /\ made = 1
    /\ args \in [kwic : RepeatResults, options : RepeatOptions]
    /\ returned = Ok(<<>>)

\* the list-valued options in effect, as the rendering of the content
\* reads them
list_valued_options(opts) ==
    [optkey \in Range(ItemsOf(opts["list_valued_opts"])) \cap DOMAIN opts |->
        opts[optkey]]

\* formatter.make_download_content(query_result, query_params, options)
\* once more on the same formatter with the same arguments, up to the
\* rendering of the content
MakeDownloadContentAgain ==
    /\ Len(returned.val) < MaxCalls
    /\ \E made_ \in {make_download_content(formatter, sentence_field_labels,
                                           args.kwic, args.options)} :
        /\ formatter' = made_.formatter
        /\ sentence_field_labels' = made_.labels
        /\ returned' =
            Ok(Append(returned.val, list_valued_options(made_.formatter.opts)))
    /\ UNCHANGED <<py3, tokVars, contentVars, format_importable,
                   formatterOut, made, expVars, args>>

NextRepeat == MakeDownloadContentAgain

SpecRepeat == InitRepeat /\ [][NextRepeat]_vars

\* C29: make_download_content called again on the same formatter with the
\* same query result, query parameters and options renders the same
\* content, the date apart: every list-valued option has in each later call
\* the expanded value that it had in the first call.
C29_RepeatedCallsAgree ==
    \A i \in 1..Len(returned.val) : returned.val[i] = returned.val[1]

-----------------------------------------------------------------------------
(* formatter.py, queryresult.py: the corpus info of a sentence *)

\* An item of the corpus_info of a sentence: a string or a dict of strings.
IStr(s) == [isStr |-> TRUE, s |-> s, d |-> <<>>]

IDict(d) == [isStr |-> FALSE, s |-> "", d |-> d]

\* the truth value of an item
ITruthy(value) == IF value.isStr THEN value.s # "" ELSE DOMAIN value.d # {}

\* get_sentence_corpus_info_item(sentence, item, subitem); sentence
\* .corpus_info is sentence.get("corpus_info") or {}
get_sentence_corpus_info_item(sent, item, subitem) ==
    IF item \in DOMAIN sent.corpus_info
    THEN IF ~subitem.isNone
         THEN IF ~sent.corpus_info[item].isStr
                    /\ subitem.s \in DOMAIN sent.corpus_info[item].d
              THEN IStr(sent.corpus_info[item].d[subitem.s])
              ELSE IStr("")
         ELSE sent.corpus_info[item]
    ELSE IStr("")

\* get_sentence_corpus_urn
get_sentence_corpus_urn(sent) ==
    get_sentence_corpus_info_item(sent, "urn", NoValue)

\* the body of the loop of get_sentence_corpus_link for one linktype
sentence_corpus_link_of_type(sent, itemname, linktype) ==
    IF ~itemname.isNone /\ itemname.s # ""
    THEN get_sentence_corpus_info_item(sent, itemname.s, StrValue(linktype))
    ELSE get_sentence_corpus_info_item(sent, linktype, NoValue)

\* get_sentence_corpus_link: the URN is preferred and gets the resolver as
\* its prefix; a str and a dict cannot be concatenated
get_sentence_corpus_link(sent, itemname, urn_resolver) ==
    LET urn == sentence_corpus_link_of_type(sent, itemname, "urn")
        url == sentence_corpus_link_of_type(sent, itemname, "url")
    IN  IF ITruthy(urn)
        THEN IF urn_resolver = "" THEN Ok(urn)
             ELSE IF urn.isStr THEN Ok(IStr(urn_resolver \o urn.s))
             ELSE Raise("TypeError")
        ELSE IF ITruthy(url) THEN Ok(url)
        ELSE Ok(IStr(""))

\* _get_corpus_info: the dict made for a sentence
sentence_corpus_info(sent, urn_resolver) ==
    LET link == get_sentence_corpus_link(sent, NoValue, urn_resolver)
        licence_link ==
            get_sentence_corpus_link(sent, StrValue("licence"), urn_resolver)
        metadata_link ==
            get_sentence_corpus_link(sent, StrValue("metadata"), urn_resolver)
    IN  IF link.exc # "" THEN link
        ELSE IF licence_link.exc # "" THEN licence_link
        ELSE IF metadata_link.exc # "" THEN metadata_link
        ELSE Ok([corpus_name |-> IStr(sent.corpus),
                 urn |-> get_sentence_corpus_urn(sent),
                 link |-> link.val,
                 licence_name |->
                    get_sentence_corpus_info_item(sent, "licence",
                                                  StrValue("name")),
                 licence_link |-> licence_link.val,
                 metadata_link |-> metadata_link.val])

\* KorpExportFormatter._get_corpus_info for a formatter whose
\* self._corpus_info is corpus_info: the outcome and self._corpus_info
\* after the call
get_corpus_info_of(corpus_info, sent, urn_resolver) ==
    IF sent.corpus \in DOMAIN corpus_info
    THEN [returned |-> Ok(corpus_info[sent.corpus]),
          corpus_info |-> corpus_info]
    ELSE LET made_ == sentence_corpus_info(sent, urn_resolver)
         IN  IF made_.exc # ""
             THEN [returned |-> made_, corpus_info |-> corpus_info]
             ELSE [returned |-> made_,
                   corpus_info |-> SetKey(corpus_info, sent.corpus, made_.val)]

-----------------------------------------------------------------------------
(* formatter.py: the corpus info of a sentence: state machine *)

MaxInfoCalls == 3

CacheCorpusInfos ==
    {<<>>,
     [urn |-> IStr("urn:a")],
     [urn |-> IStr("urn:b"), licence |-> IDict([name |-> "CC"])],
     [url |-> IStr("http://c"),
      licence |-> IDict([name |-> "ACA", urn |-> "urn:l"]),
      metadata |-> IDict([url |-> "http://m"])],
     [urn |-> IDict([id |-> "a"])]}

\* the sentences of the query results given to the formatter
CacheSentences ==
    [corpus : {"news", "blogs"}, corpus_info : CacheCorpusInfos]

\* a formatter just constructed: self._corpus_info is empty
InitCache ==
    /\ TokensIdle
    /\ ContentIdle
    /\ ExporterIdle
    /\ CallIdle
    /\ py3 = TRUE
    /\ format_importable = TRUE
    /\ sentence_field_labels = sentence_field_labels_default
    /\ formatter \in [exists : {TRUE}, urn_resolver : {"", "http://urn.fi/"},
                      corpus_info : {<<>>}, sentences : {<<>>}]
    /\ formatterOut = [exc |-> "", msg |-> ""]
    /\ made = 1

\* self._get_corpus_info(sentence), for a sentence of the query result of
\* this or of a later make_download_content call of the formatter
GetCorpusInfo ==
    /\ Len(formatter.sentences) < MaxInfoCalls
    /\ \E sent \in CacheSentences :
        \E got \in {get_corpus_info_of(formatter.corpus_info, sent,
                                       formatter.urn_resolver)} :
            /\ formatter' = [formatter EXCEPT
                                !.corpus_info = got.corpus_info,
                                !.sentences = Append(@, sent)]
            /\ args' = sent
            /\ returned' = got.returned
    /\ UNCHANGED <<py3, tokVars, contentVars, format_importable,
                   sentence_field_labels, formatterOut, made, expVars>>

NextCache == GetCorpusInfo

SpecCache == InitCache /\ [][NextCache]_vars

\* C30: the corpus info fields that _get_corpus_info gives for a sentence
\* (corpus_name, urn, link, licence_name, licence_link, metadata_link) are
\* those derived from the corpus_info of that sentence, for every sequence
\* of sentences and of make_download_content calls on one formatter.
C30_CorpusInfoOfOwnRecord ==
    returned.exc # "not called" =>
        returned = sentence_corpus_info(args, formatter.urn_resolver)

====
